---- MODULE Spec2Model ----
(***************************************************************************)
(* Model of scripts/devenv-backup/devenv.py: the backup orchestrator       *)
(* (run_backup), the restore orchestrator (run_restore,                    *)
(* restore_from_manifest) and symlink discovery (collect_symlinks).        *)
(*                                                                         *)
(* The specifications share the variables:                                 *)
(*   SpecBackup      one invocation of the backup command                  *)
(*   SpecRestore     one invocation of the restore command                 *)
(*   SpecInvocation  one invocation of either                              *)
(*   SpecClonePhase  a restore of more repositories than clone slots       *)
(*   SpecS3Phase     a backup of more files than object-store slots        *)
(*   SpecDiscover    one discovery walk of generate_manifest               *)
(*   SpecNames       the cmd_* handlers' validation of --machine, --name   *)
(*   SpecPin         restore_workspace on one workspace                    *)
(*   SpecReads       one read of the jj driver, stale or not               *)
(*   SpecCapture     the manifest command: discover_repos on               *)
(*                   up to MaxPrimary primary checkouts                    *)
(*   SpecCaptureRestore a manifest captured, or one restored               *)
(*   SpecAgentSync   sync_claude_dir_to_s3 on one directory                *)
(*   SpecAgentRestore   restore_*_dir_from_s3 on one listing               *)
(*   SpecCloneFailure   a restore of two repositories and a file           *)
(*   SpecWorkspaces  a restore onto repositories with several workspaces   *)
(*   SpecNestedClones   a restore of two repositories, one in the other    *)
(* Every coroutine is a position (pc, or a task's "st"); an action is the  *)
(* code between two suspension points.                                     *)
(***************************************************************************)
EXTENDS Integers, Sequences, FiniteSets, TLC

VARIABLES
  cmd,        \* the command of this invocation: "backup", "restore", "discover"
  entry,      \* cmd_restore's branch: "s3", "manifest_file", "stdin" ("none" otherwise)
  dry_run,    \* args.dry_run
  force,      \* args.force
  manifest,   \* the Manifest the invocation works on
  localdirs,  \* backup: files of the two agent directories; restore: objects listed for them
  pc,         \* position of the command's handler coroutine
  tasks,      \* per phase, the coroutines handed to asyncio.gather
  mf,         \* backup: the s3_upload_bytes call of the manifest
  store,      \* keys present in the object store
  disk,       \* paths that exist on the local disk
  written,    \* restore: every location a clone, workspace add, download or symlink wrote to
  errors,     \* the per-invocation error list
  failures,   \* operations that failed in this invocation (history, not program state)
  exit_code,  \* the process's exit status, NotExited while running
  walk,       \* discover: the directory entries os.walk has still to yield; agent
              \* directories: the files or objects a sync or restore selected
  run,        \* restore: 1 in the first invocation, 2 in one repeated on the same machine
  disk0,      \* the local disk as the invocation found it (history, not program state)
  retried,    \* the kinds of error after which S3_RETRY made another attempt (history)
  args,       \* the command line's --machine, --name and --sessions-after, and the
              \* host's nodename
  vcs         \* the jj commands issued (history) and, where a specification follows the
              \* driver itself, the position and results of its reads

vars == <<cmd, entry, dry_run, force, manifest, localdirs, pc, tasks, mf, store,
          disk, written, errors, failures, exit_code, walk, run, disk0, retried, args, vcs>>

----------------------------------------------------------------------------
(* Bounds of the model *)

MaxFiles == 2
MaxAgentFiles == 1

\* the longest --machine, --name or nodename
MaxNameLen == 2

(* Program constants *)

MAX_CONCURRENT_CLONES == 4
MAX_CONCURRENT_S3_OPS == 20
S3_MAX_ATTEMPTS == 5

NotExited == -1

----------------------------------------------------------------------------
(* Paths: a path is a sequence of segments; an absolute path starts with    *)
(* the segment "/".                                                         *)

IsAbsolute(p) == Len(p) > 0 /\ p[1] = "/"

Join(root, p) == IF IsAbsolute(p) THEN p ELSE root \o p

IsPrefix(a, b) == Len(a) <= Len(b) /\ SubSeq(b, 1, Len(a)) = a

RECURSIVE Resolve(_)
Resolve(p) ==
  IF Len(p) = 0 THEN <<>>
  ELSE LET head == Resolve(SubSeq(p, 1, Len(p) - 1))
           last == p[Len(p)]
       IN  IF last = ".."
           THEN IF Len(head) > 1 THEN SubSeq(head, 1, Len(head) - 1) ELSE head
           ELSE Append(head, last)

Cwd == <<"/", "home">>

Abs(p) == Resolve(Join(Cwd, p))

is_path_under_root(path, root) == IsPrefix(Abs(root), Abs(path))

DotDotSegments == {"..", "n..m"}

HasDotDot(p) == \E i \in DOMAIN p : p[i] \in DotDotSegments

validate_relative_path(rel_path) ==
  ~IsAbsolute(rel_path) /\ \A i \in DOMAIN rel_path : rel_path[i] # ".."

----------------------------------------------------------------------------
(* Names: a name is a sequence of characters *)

\* [a-zA-Z0-9_-], as far as the model's alphabet goes
SafeChars == {"a", "u", "n", "k", "o", "w", "c", "l", "d", "e", "p", "0", "_", "-"}

\* what str.strip() removes
Whitespace == {" ", "\n"}

\* the characters a command-line argument or a nodename is made of
Chars == {"a", "0", "_", "-", "/", ".", " ", "\n"}

RECURSIVE NamesOf(_)
NamesOf(n) ==
  IF n = 0 THEN {<<>>}
  ELSE LET shorter == NamesOf(n - 1)
       IN  shorter \cup {Append(s, c) : s \in {t \in shorter : Len(t) = n - 1}, c \in Chars}

\* SAFE_NAME_PATTERN.match(name): "^" and "$" without re.MULTILINE, so "$" matches
\* at the end of the string and also just before a newline that ends the string
SAFE_NAME_PATTERN_match(name) ==
  \E k \in 1..Len(name) :
    /\ \A i \in 1..k : name[i] \in SafeChars
    /\ \/ k = Len(name)
       \/ k = Len(name) - 1 /\ name[Len(name)] = "\n"

\* TRUE when validate_safe_name returns the name, FALSE when it raises ValueError
validate_safe_name(name) ==
  /\ ~(name = <<>> \/ \A i \in 1..Len(name) : name[i] \in Whitespace)
  /\ SAFE_NAME_PATTERN_match(name)

\* re.sub(r"[^a-zA-Z0-9_-]+", "-", hostname)
RECURSIVE sub_unsafe(_, _)
sub_unsafe(s, in_run) ==
  IF s = <<>> THEN <<>>
  ELSE IF Head(s) \in SafeChars THEN <<Head(s)>> \o sub_unsafe(Tail(s), FALSE)
  ELSE IF in_run THEN sub_unsafe(Tail(s), TRUE)
  ELSE <<"-">> \o sub_unsafe(Tail(s), TRUE)

\* str.strip("-")
RECURSIVE strip_hyphens(_)
strip_hyphens(s) ==
  IF s = <<>> THEN <<>>
  ELSE IF Head(s) = "-" THEN strip_hyphens(Tail(s))
  ELSE IF s[Len(s)] = "-" THEN strip_hyphens(SubSeq(s, 1, Len(s) - 1))
  ELSE s

get_machine_name(nodename) ==
  LET sanitized == strip_hyphens(sub_unsafe(nodename, FALSE))
  IN  IF sanitized = <<>> THEN <<"u", "n", "k", "n", "o", "w", "n">> ELSE sanitized

\* args.machine or get_machine_name()
machine_of(a) == IF a.machine = <<>> THEN get_machine_name(a.nodename) ELSE a.machine

\* the names an invocation of the other specifications has validated
ValidatedArgs == [machine |-> <<"a">>, name |-> <<"0">>, nodename |-> <<"a">>]

----------------------------------------------------------------------------
(* Object-store operations under S3_RETRY *)

Waiting == [st |-> "waiting", n |-> 0]

IsTerminal(t) ==
  t.st \in {"true", "false", "exception", "cancelled", "skipped", "exists"}

AllDone(ts) == \A i \in DOMAIN ts : IsTerminal(ts[i])

Running(ts) == {i \in DOMAIN ts : ts[i].st = "running"}

S3Outcomes == {"success", "client_error", "transient", "os_error", "exception"}

\* "transient": a ClientError with code 429, 500, 503, SlowDown or ServiceUnavailable,
\* or a ConnectionError or TimeoutError; "os_error": any other OSError, such as
\* PermissionError or FileNotFoundError on the local file; "client_error": any other
\* ClientError; "exception": any other exception
should_retry_s3_error(exc) == exc \in {"transient", "os_error"}

RetryExhaustedLate(n) == n > S3_MAX_ATTEMPTS

RetryExhausted(n) == n >= S3_MAX_ATTEMPTS

S3Attempt(t, outcome) ==
  CASE outcome = "success"      -> [st |-> "true", n |-> 0]
    [] outcome = "client_error" -> [st |-> "false", n |-> 0]
    [] should_retry_s3_error(outcome) ->
         IF RetryExhausted(t.n + 1) THEN [st |-> "exception", n |-> 0]
         ELSE [st |-> "running", n |-> t.n + 1]
    [] OTHER                    -> [st |-> "exception", n |-> 0]

\* the error kinds retried so far, after one more attempt of t ended with outcome
Retried(t, outcome) ==
  IF should_retry_s3_error(outcome) /\ ~RetryExhausted(t.n + 1)
  THEN retried \cup {outcome} ELSE retried

RECURSIVE count_results(_, _)
count_results(results, error_prefix) ==
  IF Len(results) = 0 THEN <<>>
  ELSE (IF Head(results).st = "exception" THEN <<error_prefix>> ELSE <<>>)
       \o count_results(Tail(results), error_prefix)

----------------------------------------------------------------------------
(* Inputs *)

Home == <<"/", "home">>

FileNames == <<"f1", "f2", "f3", "f4">>

AgentFileNames == <<"s1", "s2", "s3">>

RelFiles(n) == [i \in 1..n |-> <<FileNames[i]>>]

AgentDirs ==
  {[exists |-> FALSE, files |-> <<>>]} \cup
  {[exists |-> TRUE, files |-> SubSeq(AgentFileNames, 1, k)] : k \in 0..MaxAgentFiles}

NoTasks == [clones |-> <<>>, pins |-> <<>>, workspaces |-> <<>>,
            files |-> <<>>, claude |-> <<>>, opencode |-> <<>>]

FilesKey(rel_path) == <<"backup", "files">> \o rel_path

ManifestKey == <<"backup", "manifest.json">>

AgentKey(ph, name) == <<IF ph = "claude" THEN "claude-code" ELSE "opencode", name>>

\* the keys of the machine's backups: "backup" stands for {base}/{machine}/{name}, the
\* agent directories are kept under {base}/claude-code/ and {base}/opencode/
UnderMachinePrefix(s) == {key \in s : key[1] \notin {"claude-code", "opencode"}}

\* list_backups: one name per CommonPrefixes entry of the listing of {base}/{machine}/
\* with Delimiter "/", that is, per first segment of a key below the machine's prefix
list_backups(s) == {key[1] : key \in UnderMachinePrefix(s)}

----------------------------------------------------------------------------
(* async_main and the cmd_* handlers: how an invocation ends *)

ExitOfReturn(errs) == IF Len(errs) > 0 THEN 1 ELSE 0

ExitOfException(kind) == 1

Ended == exit_code # NotExited

CancelAll(tss) ==
  [ph \in DOMAIN tss |->
     [i \in DOMAIN tss[ph] |->
        IF IsTerminal(tss[ph][i]) THEN tss[ph][i] ELSE [st |-> "cancelled", n |-> 0]]]

\* some task is awaiting a jj subprocess in run_with_timeout
VcsRunning ==
  \E ph \in {"clones", "pins", "workspaces"} :
    \E i \in DOMAIN tasks[ph] : tasks[ph][i].st = "running"

\* async_main's wait_for expires: the handler and its tasks are cancelled. The
\* CancelledError passes through run_with_timeout, which kills its subprocess only on
\* its own TimeoutError; whether the interpreter's shutdown then kills a subprocess
\* still running is not decided by the program (left).
Deadline(left) ==
  /\ ~Ended
  /\ left => VcsRunning
  /\ pc' = "TimeoutError"
  /\ tasks' = CancelAll(tasks)
  /\ mf' = IF mf.st = "running" THEN [st |-> "cancelled", n |-> 0] ELSE mf
  /\ exit_code' = ExitOfException("TimeoutError")
  /\ failures' = IF left THEN failures \cup {"subprocess_left_running"} ELSE failures
  /\ UNCHANGED <<vcs, args, cmd, entry, dry_run, force, manifest, localdirs, store, disk,
                 written, errors, walk, run, disk0, retried>>

----------------------------------------------------------------------------
(* Backup: run_backup *)

BackupInit ==
  /\ vcs = {}
  /\ args = ValidatedArgs
  /\ cmd = "backup"
  /\ entry = "none"
  /\ dry_run \in BOOLEAN
  /\ force = FALSE
  /\ \E n \in 0..MaxFiles :
       manifest = [root_dir |-> Home, workspaces |-> <<>>,
                   files |-> RelFiles(n), symlinks |-> <<>>]
  /\ localdirs \in [{"claude", "opencode"} -> AgentDirs]
  /\ pc = "start"
  /\ tasks = NoTasks
  /\ mf = Waiting
  /\ store = {}
  /\ disk = {}
  /\ written = {}
  /\ errors = <<>>
  /\ failures = {}
  /\ exit_code = NotExited
  /\ walk = {}
  /\ run = 1
  /\ disk0 = disk
  /\ retried = {}

UploadTasks(names) == [i \in 1..Len(names) |-> Waiting]

BackupDryRun ==
  /\ cmd = "backup" /\ pc = "start" /\ dry_run
  /\ pc' = "returned"
  /\ exit_code' = ExitOfReturn(errors)
  /\ UNCHANGED <<vcs, args, cmd, entry, dry_run, force, manifest, localdirs, tasks, mf, store,
                 disk, written, errors, failures, walk, run, disk0, retried>>

BackupStart ==
  /\ cmd = "backup" /\ pc = "start" /\ ~dry_run
  /\ pc' = "files"
  /\ tasks' = [tasks EXCEPT !.files = UploadTasks(manifest.files)]
  /\ UNCHANGED <<vcs, args, cmd, entry, dry_run, force, manifest, localdirs, mf, store, disk,
                 written, errors, failures, exit_code, walk, run, disk0, retried>>

UploadKey(ph, i) ==
  IF ph = "files" THEN FilesKey(manifest.files[i])
  ELSE AgentKey(ph, localdirs[ph].files[i])

S3SemaphoreAbsent(ph) == TRUE

\* "async with semaphore" of run_parallel_s3_ops can be entered
S3SemaphoreFree(ph) == Cardinality(Running(tasks[ph])) < MAX_CONCURRENT_S3_OPS

S3Acquire(ph, i) ==
  /\ ~Ended /\ pc = ph
  /\ i \in DOMAIN tasks[ph]
  /\ tasks[ph][i].st = "waiting"
  /\ S3SemaphoreFree(ph)
  /\ tasks' = [tasks EXCEPT ![ph][i] = [st |-> "running", n |-> 0]]
  /\ UNCHANGED <<vcs, args, cmd, entry, dry_run, force, manifest, localdirs, pc, mf, store,
                 disk, written, errors, failures, exit_code, walk, run, disk0, retried>>

s3_upload_file(ph, i, outcome) ==
  /\ cmd = "backup" /\ ~Ended /\ pc = ph
  /\ i \in DOMAIN tasks[ph]
  /\ tasks[ph][i].st = "running"
  /\ tasks' = [tasks EXCEPT ![ph][i] = S3Attempt(tasks[ph][i], outcome)]
  /\ store' = IF outcome = "success" THEN store \cup {UploadKey(ph, i)} ELSE store
  /\ failures' = IF S3Attempt(tasks[ph][i], outcome).st \in {"false", "exception"}
                 THEN failures \cup {"upload"} ELSE failures
  /\ retried' = Retried(tasks[ph][i], outcome)
  /\ UNCHANGED <<vcs, args, cmd, entry, dry_run, force, manifest, localdirs, pc, mf, disk,
                 written, errors, exit_code, walk, run, disk0>>

\* a gather that returns at the first finished upload
UploadsGatheredAtFirst(ph) ==
  tasks[ph] = <<>> \/ \E i \in DOMAIN tasks[ph] : IsTerminal(tasks[ph][i])

UploadsGathered(ph) == AllDone(tasks[ph])

sync_files_to_s3 ==
  /\ cmd = "backup" /\ ~Ended /\ pc = "files"
  /\ UploadsGathered("files")
  /\ errors' = errors \o count_results(tasks.files, "Upload error")
  /\ pc' = "claude"
  /\ tasks' = [tasks EXCEPT !.claude = UploadTasks(localdirs.claude.files)]
  /\ UNCHANGED <<vcs, args, cmd, entry, dry_run, force, manifest, localdirs, mf, store, disk,
                 written, failures, exit_code, walk, run, disk0, retried>>

sync_claude_dir_to_s3 ==
  /\ cmd = "backup" /\ ~Ended /\ pc = "claude"
  /\ UploadsGathered("claude")
  /\ errors' = errors \o count_results(tasks.claude, "Claude dir upload error")
  /\ pc' = "opencode"
  /\ tasks' = [tasks EXCEPT !.opencode = UploadTasks(localdirs.opencode.files)]
  /\ UNCHANGED <<vcs, args, cmd, entry, dry_run, force, manifest, localdirs, mf, store, disk,
                 written, failures, exit_code, walk, run, disk0, retried>>

sync_opencode_dir_to_s3 ==
  /\ cmd = "backup" /\ ~Ended /\ pc = "opencode"
  /\ UploadsGathered("opencode")
  /\ errors' = errors \o count_results(tasks.opencode, "OpenCode dir upload error")
  /\ pc' = "manifest"
  /\ mf' = [st |-> "running", n |-> 0]
  /\ UNCHANGED <<vcs, args, cmd, entry, dry_run, force, manifest, localdirs, tasks, store, disk,
                 written, failures, exit_code, walk, run, disk0, retried>>

\* run_backup without its "if not await s3_upload_bytes(...)" test
ManifestUploadEndsUnchecked(outcome) ==
  CASE outcome \in {"true", "false"} -> [pc |-> "returned", errs |-> errors,
                                         exit |-> ExitOfReturn(errors)]
    [] outcome = "exception" -> [pc |-> "Exception", errs |-> errors,
                                 exit |-> ExitOfException("Exception")]
    [] OTHER -> [pc |-> pc, errs |-> errors, exit |-> exit_code]

ManifestUploadEnds(outcome) ==
  CASE outcome = "true"  -> [pc |-> "returned", errs |-> errors,
                             exit |-> ExitOfReturn(errors)]
    [] outcome = "false" -> [pc |-> "DevEnvError",
                             errs |-> Append(errors, "Failed to upload manifest after retries"),
                             exit |-> ExitOfException("DevEnvError")]
    [] outcome = "exception" -> [pc |-> "Exception", errs |-> errors,
                                 exit |-> ExitOfException("Exception")]
    [] OTHER -> [pc |-> pc, errs |-> errors, exit |-> exit_code]

s3_upload_bytes(outcome) ==
  /\ cmd = "backup" /\ ~Ended /\ pc = "manifest"
  /\ mf.st = "running"
  /\ LET after == S3Attempt(mf, outcome)
         ends  == ManifestUploadEnds(after.st)
     IN  /\ mf' = [after EXCEPT !.n = mf.n + 1]
         /\ store' = IF outcome = "success" THEN store \cup {ManifestKey} ELSE store
         /\ pc' = ends.pc
         /\ errors' = ends.errs
         /\ exit_code' = ends.exit
         /\ failures' = IF after.st \in {"false", "exception"}
                        THEN failures \cup {"manifest_upload"} ELSE failures
         /\ retried' = Retried(mf, outcome)
  /\ UNCHANGED <<vcs, args, cmd, entry, dry_run, force, manifest, localdirs, tasks, disk,
                 written, walk, run, disk0>>

BackupNext ==
  \/ BackupDryRun
  \/ BackupStart
  \/ \E ph \in {"files", "claude", "opencode"}, i \in 1..(MaxFiles + MaxAgentFiles) :
       cmd = "backup" /\ S3Acquire(ph, i)
  \/ \E ph \in {"files", "claude", "opencode"}, i \in 1..(MaxFiles + MaxAgentFiles),
        o \in S3Outcomes : s3_upload_file(ph, i, o)
  \/ sync_files_to_s3
  \/ sync_claude_dir_to_s3
  \/ sync_opencode_dir_to_s3
  \/ \E o \in S3Outcomes \ {"os_error"} : s3_upload_bytes(o)
  \/ \E left \in BOOLEAN : Deadline(left)

SpecBackup == BackupInit /\ [][BackupNext]_vars

----------------------------------------------------------------------------
(* Remotes: an URL is the sequence of the pieces of its text; the remotes of *)
(* a repository are its (name, url) items in the dict's order                *)

ALLOWED_URL_SCHEMES ==
  {<<"https", "://">>, <<"http", "://">>, <<"git", "@">>, <<"ssh", "://">>, <<"git", "://">>}

\* any(url.startswith(scheme) for scheme in ALLOWED_URL_SCHEMES)
validate_url_scheme(url) == \E scheme \in ALLOWED_URL_SCHEMES : IsPrefix(scheme, url)

Remote(name, url) == [name |-> name, url |-> url]

\* a filter that lets every remote through
any_remotes(remotes) == remotes

\* {name: url for name, url in remotes.items() if validate_url_scheme(url)}
RECURSIVE valid_remotes(_)
valid_remotes(remotes) ==
  IF remotes = <<>> THEN <<>>
  ELSE (IF validate_url_scheme(Head(remotes).url) THEN <<Head(remotes)>> ELSE <<>>)
       \o valid_remotes(Tail(remotes))


\* remotes.get("origin") or next(iter(remotes.values()))
primary_url(remotes) ==
  IF \E i \in DOMAIN remotes : remotes[i].name = "origin"
  THEN remotes[CHOOSE i \in DOMAIN remotes : remotes[i].name = "origin"].url
  ELSE remotes[1].url

----------------------------------------------------------------------------
(* Restore: the manifests and machines a restore may meet *)

MaxRepos == 2

RepoNames == <<"p1", "p2", "p3", "p4", "p5", "p6", "p7">>

Workspace(name, path) == [name |-> name, path |-> path, current_change_id |-> "c"]

\* only the first repository has a non-default workspace
ExtraWorkspaces(i) ==
  IF i = 1 THEN <<Workspace("w1", Home \o <<"ws", "w1">>)>> ELSE <<>>

Repo(i) ==
  [name |-> RepoNames[i],
   remotes |-> <<Remote("origin", <<"https", "://", "h", "/", RepoNames[i]>>)>>,
   workspaces |-> <<Workspace("default", Home \o <<RepoNames[i]>>)>> \o ExtraWorkspaces(i)]

Link1 == [relative_path |-> <<"l1">>, target |-> <<"f1">>]

Benign(nr, nf, ls) ==
  [root_dir |-> Home, workspaces |-> [i \in 1..nr |-> Repo(i)],
   files |-> RelFiles(nf), symlinks |-> ls]

AgentObjectsListed(k) ==
  [ph \in {"claude", "opencode"} |-> [exists |-> TRUE, files |-> SubSeq(AgentFileNames, 1, k)]]

Scenario(m, k) == [manifest |-> m, dirs |-> AgentObjectsListed(k)]

Base == Benign(1, 1, <<Link1>>)

BadFilePaths == {<<"..", "f1">>, <<"/", "etc", "f1">>, <<"n..m">>, <<"d", "..", "..", "f1">>}

BadLinks ==
  {[relative_path |-> <<"..", "l1">>, target |-> <<"f1">>],
   [relative_path |-> <<"l1">>, target |-> <<"..", "etc">>],
   [relative_path |-> <<"l1">>, target |-> <<"/", "etc">>]}

BadWsPaths == {<<"p1">>, <<"/", "etc", "p1">>, <<"/", "home", "..", "etc", "p1">>}

HostileManifests ==
  {[Base EXCEPT !.files = <<p>>] : p \in BadFilePaths} \cup
  {[Base EXCEPT !.symlinks = <<e>>] : e \in BadLinks} \cup
  {[Base EXCEPT !.workspaces[1].workspaces[1].path = p] : p \in BadWsPaths} \cup
  {[Base EXCEPT !.root_dir = Home \o <<"sub">>]}

\* manifests of two repositories whose remotes or workspaces are not what a backup
\* writes: a remote with another scheme beside a supported one, only such remotes, no
\* remotes, no default workspace
RemoteManifests ==
  LET two == Benign(2, 0, <<>>)
      file == <<"file", "://", "/", "etc", "/", "passwd">>
  IN  {[two EXCEPT !.workspaces[1].remotes =
                      <<Remote("origin", file),
                        Remote("upstream", <<"http", "://", "h", "/", "y">>)>>,
                   !.workspaces[2].remotes = <<Remote("origin", <<"ext", "::", "sh">>)>>],
       [two EXCEPT !.workspaces[1].remotes = <<>>,
                   !.workspaces[2].remotes =
                      <<Remote("upstream", <<"git", "://", "h", "/", "y">>),
                        Remote("origin", <<"https", "://", "h", "/", "p2">>),
                        Remote("evil", file)>>],
       [two EXCEPT !.workspaces[2].workspaces =
                      <<Workspace("w2", Home \o <<"ws", "w2">>)>>]}

AbsoluteFileManifest == [Base EXCEPT !.files = <<Home \o <<"f1">>>>]

\* a backup of a machine whose root_dir is not below this machine's home
ForeignRootManifest ==
  [Base EXCEPT !.root_dir = <<"/", "srv">>,
               !.workspaces[1].workspaces[1].path = <<"/", "srv", "p1">>,
               !.workspaces[1].workspaces[2].path = <<"/", "srv", "ws", "w1">>]

\* a repository-heavy backup, a file-heavy backup, a backup of agent directories
\* only, a small backup with everything in it, and the manifests restore must refuse
Scenarios ==
  {Scenario(Benign(MaxRepos, 0, <<>>), 0),
   Scenario(Benign(0, MaxFiles, <<Link1>>), 0),
   Scenario(Benign(0, 0, <<>>), MaxAgentFiles),
   Scenario(Base, 1)} \cup
  {Scenario(m, 0) : m \in HostileManifests \cup RemoteManifests
                            \cup {AbsoluteFileManifest, ForeignRootManifest}}

AllWorkspaces(m) ==
  UNION {{m.workspaces[i].workspaces[k] : k \in DOMAIN m.workspaces[i].workspaces} :
           i \in DOMAIN m.workspaces}

DefaultPath(i) == manifest.workspaces[i].workspaces[1].path

LocalFile(i) == Abs(Join(manifest.root_dir, manifest.files[i]))

AgentLocal(ph, name) == <<"/", ph, name>>

FreshDisk == {}

ReposOnDisk(m) == {Abs(m.workspaces[i].workspaces[1].path) : i \in DOMAIN m.workspaces}

RestoredDisk(m, dirs) ==
  {Abs(w.path) : w \in AllWorkspaces(m)} \cup
  {Abs(Join(m.root_dir, m.files[i])) : i \in DOMAIN m.files} \cup
  {Abs(Join(m.root_dir, m.symlinks[j].relative_path)) : j \in DOMAIN m.symlinks} \cup
  UNION {{AgentLocal(ph, dirs[ph].files[i]) : i \in DOMAIN dirs[ph].files} : ph \in DOMAIN dirs}

BackupObjects(m) == {ManifestKey} \cup {FilesKey(m.files[i]) : i \in DOMAIN m.files}

AgentObjects(dirs) ==
  UNION {{AgentKey(ph, dirs[ph].files[i]) : i \in DOMAIN dirs[ph].files} : ph \in DOMAIN dirs}

----------------------------------------------------------------------------
(* Restore: path safety *)

validate_restore_paths(m, root_dir) ==
  /\ \A i \in DOMAIN m.files :
       /\ ~HasDotDot(m.files[i])
       /\ is_path_under_root(Join(root_dir, m.files[i]), root_dir)
  /\ \A j \in DOMAIN m.symlinks :
       /\ ~HasDotDot(m.symlinks[j].relative_path)
       /\ ~HasDotDot(m.symlinks[j].target)
       /\ is_path_under_root(Join(root_dir, m.symlinks[j].relative_path), root_dir)
       /\ is_path_under_root(Join(root_dir, m.symlinks[j].target), root_dir)
  /\ \A w \in AllWorkspaces(m) :
       /\ IsAbsolute(w.path)
       /\ is_path_under_root(w.path, root_dir)

PathsOutsideHome(m) == {w.path : w \in {v \in AllWorkspaces(m) : ~is_path_under_root(v.path, Home)}}

----------------------------------------------------------------------------
(* Restore: cmd_restore, run_restore, restore_from_manifest *)

Entries == {"s3", "manifest_file", "stdin"}

RestoreInit ==
  /\ vcs = {}
  /\ args = ValidatedArgs
  /\ cmd = "restore"
  /\ entry \in Entries
  /\ force \in BOOLEAN
  /\ dry_run \in (IF entry = "s3" THEN BOOLEAN ELSE {FALSE})
  /\ \E sc \in Scenarios : manifest = sc.manifest /\ localdirs = sc.dirs
  /\ disk \in {FreshDisk, ReposOnDisk(manifest), RestoredDisk(manifest, localdirs)}
  /\ store \in (IF entry = "s3"
                THEN {BackupObjects(manifest) \cup AgentObjects(localdirs),
                      BackupObjects(manifest) \ {ManifestKey}}
                ELSE {{}})
  /\ pc = "start"
  /\ tasks = NoTasks
  /\ mf = Waiting
  /\ written = {}
  /\ errors = <<>>
  /\ failures = {}
  /\ exit_code = NotExited
  /\ walk = {}
  /\ run = 1
  /\ disk0 = disk
  /\ retried = {}

\* why the first pass of restore_from_manifest leaves a repository out ("" if it
\* does not)
Skipping(repo_data) ==
  IF repo_data.remotes = <<>> THEN "no remotes"
  ELSE IF valid_remotes(repo_data.remotes) = <<>>
       THEN "no remotes with supported URL schemes"
  ELSE IF \A k \in DOMAIN repo_data.workspaces : repo_data.workspaces[k].name # "default"
       THEN "no default workspace"
  ELSE ""

RECURSIVE SkipErrors(_)
SkipErrors(workspaces) ==
  IF workspaces = <<>> THEN <<>>
  ELSE (IF Skipping(Head(workspaces)) # "" THEN <<Skipping(Head(workspaces))>> ELSE <<>>)
       \o SkipErrors(Tail(workspaces))

CloneTasks ==
  [i \in DOMAIN manifest.workspaces |->
     IF Skipping(manifest.workspaces[i]) # "" THEN [st |-> "skipped", n |-> 0]
     ELSE IF Abs(DefaultPath(i)) \in disk THEN [st |-> "exists", n |-> 0] ELSE Waiting]

Raise(kind) ==
  /\ pc' = kind
  /\ exit_code' = ExitOfException(kind)
  /\ UNCHANGED <<tasks, errors>>

\* restore_from_manifest up to its first await: the home check and the partition
RestoreFromManifestBegins ==
  IF PathsOutsideHome(manifest) # {} /\ ~force
  THEN Raise("DevEnvError")
  ELSE /\ pc' = "clones"
       /\ tasks' = [tasks EXCEPT !.clones = CloneTasks]
       /\ errors' = errors \o SkipErrors(manifest.workspaces)
       /\ UNCHANGED exit_code

FetchOutcomes == {"ok", "client_error", "invalid"}

\* a run_restore that goes on without a manifest
ManifestNotFetchedAndIgnored(kind) ==
  /\ failures' = failures \cup {"manifest_fetch"}
  /\ RestoreFromManifestBegins

\* run_restore: get_object on manifest.json raised; NoSuchKey becomes a DevEnvError
ManifestNotFetched(kind) ==
  /\ failures' = failures \cup {"manifest_fetch"}
  /\ Raise(kind)

\* run_restore from the manifest download to the first await after it
run_restore(outcome) ==
  /\ cmd = "restore" /\ entry = "s3" /\ pc = "start"
  /\ IF ManifestKey \notin store THEN ManifestNotFetched("DevEnvError")
     ELSE IF outcome = "client_error" THEN ManifestNotFetched("Exception")
     ELSE /\ UNCHANGED failures
          /\ IF outcome = "invalid" THEN Raise("DevEnvError")
             ELSE IF dry_run
                  THEN /\ pc' = "dry_run"
                       /\ UNCHANGED <<tasks, errors, exit_code>>
                  ELSE IF ~validate_restore_paths(manifest, manifest.root_dir)
                       THEN Raise("DevEnvError")
                       ELSE RestoreFromManifestBegins
  /\ UNCHANGED <<vcs, args, cmd, entry, dry_run, force, manifest, localdirs, mf, store, disk,
                 written, walk, run, disk0, retried>>

\* the dry run lists both agent directories and returns
RestoreDryRun(outcome) ==
  /\ cmd = "restore" /\ pc = "dry_run"
  /\ IF outcome = "ok"
     THEN /\ pc' = "returned"
          /\ exit_code' = ExitOfReturn(errors)
          /\ UNCHANGED <<tasks, errors>>
     ELSE Raise("Exception")
  /\ UNCHANGED <<vcs, args, cmd, entry, dry_run, force, manifest, localdirs, mf, store, disk,
                 written, failures, walk, run, disk0, retried>>

LoadOutcomes == {"ok", "invalid"}

\* cmd_restore's --manifest-file and stdin branches
load_manifest(outcome) ==
  /\ cmd = "restore" /\ entry \in {"manifest_file", "stdin"} /\ pc = "start"
  /\ IF outcome = "invalid" THEN Raise("DevEnvError") ELSE RestoreFromManifestBegins
  /\ UNCHANGED <<vcs, args, cmd, entry, dry_run, force, manifest, localdirs, mf, store, disk,
                 written, failures, walk, run, disk0, retried>>

----------------------------------------------------------------------------
(* Restore: clones (parallel, MAX_CONCURRENT_CLONES at a time) *)

\* a cleanup that removes nothing
KeepTree(d, path) == d

RemoveTree(d, path) == {q \in d : ~IsPrefix(path, q)}

\* clone_repo returned (False, error_msg) with " (cleanup failed: ...)" in error_msg
CleanupFailed == [st |-> "false", n |-> 0, note |-> "cleanup failed"]

CloneOutcomes == {"ok", "failed", "cleanup_failed", "exception"}

CloneSemaphoreAbsent == TRUE

\* "async with semaphore" of clone_repo can be entered
CloneSemaphoreFree == Cardinality(Running(tasks.clones)) < MAX_CONCURRENT_CLONES

\* clone_repo: the semaphore is acquired and the clone subprocess started
clone_repo_start(i) ==
  /\ cmd = "restore" /\ ~Ended /\ pc = "clones"
  /\ i \in DOMAIN tasks.clones
  /\ tasks.clones[i].st = "waiting"
  /\ CloneSemaphoreFree
  /\ tasks' = [tasks EXCEPT !.clones[i] = [st |-> "running", n |-> 0]]
  /\ written' = written \cup {[kind |-> "clone", path |-> Abs(DefaultPath(i))]}
  /\ vcs' = vcs \cup {[jj |-> "git clone",
                        url |-> primary_url(valid_remotes(manifest.workspaces[i].remotes))]}
  /\ UNCHANGED <<args, cmd, entry, dry_run, force, manifest, localdirs, pc, mf, store, disk,
                 errors, failures, exit_code, walk, run, disk0, retried>>

\* clone_repo: the subprocess ended; cleanup of a failed clone, remotes of a good one
clone_repo(i, outcome) ==
  /\ cmd = "restore" /\ ~Ended /\ pc = "clones"
  /\ i \in DOMAIN tasks.clones
  /\ tasks.clones[i].st = "running"
  /\ LET path == Abs(DefaultPath(i))
         remotes == valid_remotes(manifest.workspaces[i].remotes)
     IN  CASE outcome = "ok" ->
                /\ disk' = disk \cup {path}
                /\ tasks' = [tasks EXCEPT !.clones[i].st = "true"]
                /\ vcs' = vcs \cup {[jj |-> "git remote add", url |-> remotes[k].url] :
                                      k \in {j \in DOMAIN remotes : remotes[j].name # "origin"}}
                /\ UNCHANGED failures
           [] outcome = "failed" ->
                \* the subprocess may have left a partial tree at path
                /\ disk' = RemoveTree(disk \cup {path}, path)
                /\ tasks' = [tasks EXCEPT !.clones[i].st = "false"]
                /\ failures' = failures \cup {"clone"}
                /\ UNCHANGED vcs
           [] outcome = "cleanup_failed" ->
                /\ disk' = disk \cup {path}
                /\ tasks' = [tasks EXCEPT !.clones[i] = CleanupFailed]
                /\ failures' = failures \cup {"clone"}
                /\ UNCHANGED vcs
           [] OTHER ->
                /\ disk' = disk
                /\ tasks' = [tasks EXCEPT !.clones[i].st = "exception"]
                /\ failures' = failures \cup {"clone"}
                /\ UNCHANGED vcs
  /\ UNCHANGED <<args, cmd, entry, dry_run, force, manifest, localdirs, pc, mf, store,
                 written, errors, exit_code, walk, run, disk0, retried>>

\* a restore that goes on with its repositories only if no clone failed
NoCloneFailed(i) ==
  \A j \in DOMAIN tasks.clones : tasks.clones[j].st \in {"exists", "true", "skipped"}

\* a restore that goes on with every repository whose clone was attempted
CloneAttempted(i) == tasks.clones[i].st \in {"exists", "true", "false", "exception"}

InReposToProcess(i) == tasks.clones[i].st \in {"exists", "true"}

RECURSIVE TaskErrors(_, _)
TaskErrors(results, msg) ==
  IF Len(results) = 0 THEN <<>>
  ELSE (IF Head(results).st \in {"false", "exception"} THEN <<msg>> ELSE <<>>)
       \o TaskErrors(Tail(results), msg)

\* a clone gather that returns at the first finished clone
ClonesGatheredAtFirst ==
  tasks.clones = <<>> \/ \E i \in DOMAIN tasks.clones : IsTerminal(tasks.clones[i])

ClonesGathered == AllDone(tasks.clones)

PinTasks ==
  [i \in DOMAIN manifest.workspaces |->
     IF InReposToProcess(i) THEN [st |-> "running", n |-> 0] ELSE [st |-> "skipped", n |-> 0]]

\* restore_from_manifest: the clone gather returned; the default pins are started
gather_clones ==
  /\ cmd = "restore" /\ ~Ended /\ pc = "clones"
  /\ ClonesGathered
  /\ errors' = errors \o TaskErrors(tasks.clones, "Error cloning")
  /\ pc' = "pins"
  /\ tasks' = [tasks EXCEPT !.pins = PinTasks]
  /\ UNCHANGED <<vcs, args, cmd, entry, dry_run, force, manifest, localdirs, mf, store, disk,
                 written, failures, exit_code, walk, run, disk0, retried>>

----------------------------------------------------------------------------
(* Restore: default-workspace pins (parallel) *)

PinOutcomes == {"true", "false", "exception"}

\* restore_workspace on a default workspace
restore_workspace(i, outcome) ==
  /\ cmd = "restore" /\ ~Ended /\ pc = "pins"
  /\ i \in DOMAIN tasks.pins
  /\ tasks.pins[i].st = "running"
  /\ tasks' = [tasks EXCEPT !.pins[i].st = outcome]
  /\ failures' = IF outcome = "true" THEN failures ELSE failures \cup {"pin"}
  /\ UNCHANGED <<vcs, args, cmd, entry, dry_run, force, manifest, localdirs, pc, mf, store, disk,
                 written, errors, exit_code, walk, run, disk0, retried>>

PinsGathered == AllDone(tasks.pins)

\* a create_repo_workspaces that returns at the first workspace that failed
WsLoopUntilError(i, k, errs, d) ==
  IF k > Len(manifest.workspaces[i].workspaces) \/ errs # <<>>
  THEN [st |-> "true", k |-> k, step |-> "return", errs |-> errs]
  ELSE IF Abs(manifest.workspaces[i].workspaces[k].path) \in d
       THEN [st |-> "running", k |-> k, step |-> "pin", errs |-> errs]
       ELSE [st |-> "running", k |-> k, step |-> "add", errs |-> errs]

\* create_repo_workspaces at the head of its loop, for workspace k of repository i
WsLoop(i, k, errs, d) ==
  IF k > Len(manifest.workspaces[i].workspaces)
  THEN [st |-> "true", k |-> k, step |-> "return", errs |-> errs]
  ELSE IF Abs(manifest.workspaces[i].workspaces[k].path) \in d
       THEN [st |-> "running", k |-> k, step |-> "pin", errs |-> errs]
       ELSE [st |-> "running", k |-> k, step |-> "add", errs |-> errs]

WorkspaceTasks ==
  [i \in DOMAIN manifest.workspaces |->
     IF InReposToProcess(i) /\ Abs(DefaultPath(i)) \in disk
     THEN WsLoop(i, 2, <<>>, disk)
     ELSE [st |-> "skipped", k |-> 0, step |-> "none", errs |-> <<>>]]

\* restore_from_manifest: the pin gather returned; the per-repository tasks are started
gather_pins ==
  /\ cmd = "restore" /\ ~Ended /\ pc = "pins"
  /\ PinsGathered
  /\ errors' = errors \o TaskErrors(tasks.pins, "Could not restore default")
  /\ pc' = "workspaces"
  /\ tasks' = [tasks EXCEPT !.workspaces = WorkspaceTasks]
  /\ UNCHANGED <<vcs, args, cmd, entry, dry_run, force, manifest, localdirs, mf, store, disk,
                 written, failures, exit_code, walk, run, disk0, retried>>

----------------------------------------------------------------------------
(* Restore: non-default workspaces (serial in a repository, parallel across) *)

WsOutcomes == {"ok", "failed", "exception"}

WsFailed(t) == [st |-> "exception", k |-> t.k, step |-> "raised", errs |-> t.errs]

\* create_repo_workspaces: "jj workspace add" for workspace k of repository i ended
workspace_add(i, outcome) ==
  /\ cmd = "restore" /\ ~Ended /\ pc = "workspaces"
  /\ i \in DOMAIN tasks.workspaces
  /\ tasks.workspaces[i].st = "running" /\ tasks.workspaces[i].step = "add"
  /\ LET t    == tasks.workspaces[i]
         path == Abs(manifest.workspaces[i].workspaces[t.k].path)
     IN  /\ written' = written \cup {[kind |-> "workspace", path |-> path]}
         /\ CASE outcome = "ok" ->
                   /\ disk' = disk \cup {path}
                   /\ tasks' = [tasks EXCEPT !.workspaces[i].step = "pin"]
                   /\ UNCHANGED failures
              [] outcome = "failed" ->
                   /\ disk' = disk
                   /\ tasks' = [tasks EXCEPT !.workspaces[i] =
                                  WsLoop(i, t.k + 1,
                                         Append(t.errs, "Error creating workspace"), disk)]
                   /\ failures' = failures \cup {"workspace_add"}
              [] OTHER ->
                   /\ disk' = disk
                   /\ tasks' = [tasks EXCEPT !.workspaces[i] = WsFailed(t)]
                   /\ failures' = failures \cup {"workspace_add"}
  /\ UNCHANGED <<vcs, args, cmd, entry, dry_run, force, manifest, localdirs, pc, mf, store,
                 errors, exit_code, walk, run, disk0, retried>>

\* create_repo_workspaces: restore_workspace for workspace k of repository i ended
workspace_pin(i, outcome) ==
  /\ cmd = "restore" /\ ~Ended /\ pc = "workspaces"
  /\ i \in DOMAIN tasks.workspaces
  /\ tasks.workspaces[i].st = "running" /\ tasks.workspaces[i].step = "pin"
  /\ LET t == tasks.workspaces[i]
     IN  CASE outcome = "true" ->
                /\ tasks' = [tasks EXCEPT !.workspaces[i] = WsLoop(i, t.k + 1, t.errs, disk)]
                /\ UNCHANGED failures
           [] outcome = "false" ->
                /\ tasks' = [tasks EXCEPT !.workspaces[i] =
                               WsLoop(i, t.k + 1,
                                      Append(t.errs, "Could not restore workspace"), disk)]
                /\ failures' = failures \cup {"pin"}
           [] OTHER ->
                /\ tasks' = [tasks EXCEPT !.workspaces[i] = WsFailed(t)]
                /\ failures' = failures \cup {"pin"}
  /\ UNCHANGED <<vcs, args, cmd, entry, dry_run, force, manifest, localdirs, pc, mf, store, disk,
                 written, errors, exit_code, walk, run, disk0, retried>>

RECURSIVE WorkspaceErrors(_)
WorkspaceErrors(results) ==
  IF Len(results) = 0 THEN <<>>
  ELSE (IF Head(results).st = "exception" THEN <<"Workspace creation error">>
        ELSE Head(results).errs)
       \o WorkspaceErrors(Tail(results))

WorkspacesGathered == AllDone(tasks.workspaces)

\* a restore_files_from_s3 that downloads every file, present or not
DownloadTasksUnconditional == [i \in DOMAIN manifest.files |-> Waiting]

\* restore_files_from_s3 up to its gather: existing files are skipped unless force
DownloadTasks ==
  [i \in DOMAIN manifest.files |->
     IF LocalFile(i) \in disk /\ ~force THEN [st |-> "skipped", n |-> 0] ELSE Waiting]

\* restore_from_manifest returns: the legacy entries exit, run_restore goes on to the files
gather_workspaces ==
  /\ cmd = "restore" /\ ~Ended /\ pc = "workspaces"
  /\ WorkspacesGathered
  /\ LET errs == errors \o WorkspaceErrors(tasks.workspaces)
     IN  /\ errors' = errs
         /\ IF entry # "s3"
            THEN /\ pc' = "returned"
                 /\ exit_code' = ExitOfReturn(errs)
                 /\ UNCHANGED tasks
            ELSE IF \E i \in DOMAIN manifest.files : ~validate_relative_path(manifest.files[i])
                 THEN /\ pc' = "Exception"
                      /\ exit_code' = ExitOfException("Exception")
                      /\ UNCHANGED tasks
                 ELSE /\ pc' = "files"
                      /\ tasks' = [tasks EXCEPT !.files = DownloadTasks]
                      /\ UNCHANGED exit_code
  /\ UNCHANGED <<vcs, args, cmd, entry, dry_run, force, manifest, localdirs, mf, store, disk,
                 written, failures, walk, run, disk0, retried>>

----------------------------------------------------------------------------
(* Restore: loose files, symlinks, agent directories *)

DownloadOutcomes == S3Outcomes \cup {"midstream"}

DownloadKey(ph, i) ==
  IF ph = "files" THEN FilesKey(manifest.files[i])
  ELSE AgentKey(ph, localdirs[ph].files[i])

DownloadPath(ph, i) ==
  IF ph = "files" THEN LocalFile(i) ELSE AgentLocal(ph, localdirs[ph].files[i])

\* one attempt of s3_download_file; "midstream" fails after the local file was opened
s3_download_file(ph, i, outcome) ==
  /\ cmd = "restore" /\ ~Ended /\ pc = ph
  /\ i \in DOMAIN tasks[ph]
  /\ tasks[ph][i].st = "running"
  /\ outcome \in {"success", "midstream"} => DownloadKey(ph, i) \in store
  /\ LET after == S3Attempt(tasks[ph][i], IF outcome = "midstream" THEN "transient" ELSE outcome)
         opened == outcome \in {"success", "midstream"}
     IN  /\ tasks' = [tasks EXCEPT ![ph][i] = after]
         /\ disk' = IF opened THEN disk \cup {DownloadPath(ph, i)} ELSE disk
         /\ written' = IF opened /\ ph = "files"
                       THEN written \cup {[kind |-> "file", path |-> DownloadPath(ph, i)]}
                       ELSE written
         /\ failures' = IF after.st \in {"false", "exception"}
                        THEN failures \cup {"download"} ELSE failures
         /\ retried' = Retried(tasks[ph][i], IF outcome = "midstream" THEN "transient" ELSE outcome)
  /\ UNCHANGED <<vcs, args, cmd, entry, dry_run, force, manifest, localdirs, pc, mf, store,
                 errors, exit_code, walk, run, disk0>>

OsErrors == [create : SUBSET (1..1), unlink : BOOLEAN]

RECURSIVE restore_symlinks(_, _, _)
restore_symlinks(j, acc, oserr) ==
  IF j > Len(manifest.symlinks) \/ acc.raised THEN acc
  ELSE LET e      == manifest.symlinks[j]
           root   == manifest.root_dir
           link   == Abs(Join(root, e.relative_path))
           exists == link \in acc.disk
       IN  IF \/ ~is_path_under_root(Join(root, e.relative_path), root)
              \/ ~is_path_under_root(Join(root, e.target), root)
           THEN restore_symlinks(j + 1, [acc EXCEPT !.failed = @ + 1], oserr)
           ELSE IF exists /\ ~force
           THEN restore_symlinks(j + 1, acc, oserr)
           ELSE IF exists /\ oserr.unlink
           THEN [acc EXCEPT !.raised = TRUE]
           ELSE IF j \in oserr.create
           THEN restore_symlinks(j + 1, [acc EXCEPT !.failed = @ + 1,
                                                    !.disk = @ \ {link}], oserr)
           ELSE restore_symlinks(j + 1,
                  [acc EXCEPT !.disk = @ \cup {link},
                              !.written = @ \cup {[kind |-> "symlink", path |-> link]}],
                  oserr)

\* a download gather that returns at the first finished download
FilesGatheredAtFirst ==
  tasks.files = <<>> \/ \E i \in DOMAIN tasks.files : IsTerminal(tasks.files[i])

FilesGathered == AllDone(tasks.files)

\* run_restore: the download gather returned; symlinks are realized; on to directory A
restore_files_from_s3(oserr) ==
  /\ cmd = "restore" /\ ~Ended /\ pc = "files"
  /\ FilesGathered
  /\ errors' = errors \o count_results(tasks.files, "Download error")
  /\ LET r == restore_symlinks(1, [disk |-> disk, written |-> written,
                                   failed |-> 0, raised |-> FALSE], oserr)
     IN  /\ disk' = r.disk
         /\ written' = r.written
         /\ failures' = IF r.failed > 0 THEN failures \cup {"symlink"} ELSE failures
         /\ IF r.raised
            THEN pc' = "Exception" /\ exit_code' = ExitOfException("Exception")
            ELSE pc' = "claude_list" /\ UNCHANGED exit_code
  /\ UNCHANGED <<vcs, args, cmd, entry, dry_run, force, manifest, localdirs, tasks, mf, store,
                 walk, run, disk0, retried>>

AgentTasks(ph) ==
  [i \in DOMAIN localdirs[ph].files |->
     IF AgentKey(ph, localdirs[ph].files[i]) \notin store
        \/ (AgentLocal(ph, localdirs[ph].files[i]) \in disk /\ ~force)
     THEN [st |-> "skipped", n |-> 0] ELSE Waiting]

ListOutcomes == {"ok", "transient", "exception"}

\* restore_claude_dir_from_s3 / restore_opencode_dir_from_s3 up to the gather: one
\* attempt of s3_list_objects, whose attempts so far are counted in mf
s3_list_objects(ph, outcome) ==
  /\ cmd = "restore" /\ ~Ended
  /\ \/ ph = "claude" /\ pc = "claude_list"
     \/ ph = "opencode" /\ pc = "opencode_list"
  /\ CASE outcome = "ok" ->
            /\ pc' = ph
            /\ tasks' = [tasks EXCEPT ![ph] = AgentTasks(ph)]
            /\ mf' = Waiting
            /\ UNCHANGED <<errors, exit_code>>
       [] outcome = "transient" /\ ~RetryExhausted(mf.n + 1) ->
            /\ mf' = [st |-> "running", n |-> mf.n + 1]
            /\ UNCHANGED <<pc, tasks, errors, exit_code>>
       [] OTHER ->
            /\ mf' = [st |-> "exception", n |-> mf.n + 1]
            /\ Raise("Exception")
  /\ retried' = Retried(mf, outcome)
  /\ UNCHANGED <<vcs, args, cmd, entry, dry_run, force, manifest, localdirs, store, disk,
                 written, failures, walk, run, disk0>>

restore_claude_dir_from_s3 ==
  /\ cmd = "restore" /\ ~Ended /\ pc = "claude"
  /\ AllDone(tasks.claude)
  /\ errors' = errors \o count_results(tasks.claude, "Claude dir download error")
  /\ pc' = "opencode_list"
  /\ UNCHANGED <<vcs, args, cmd, entry, dry_run, force, manifest, localdirs, tasks, mf, store, disk,
                 written, failures, exit_code, walk, run, disk0, retried>>

restore_opencode_dir_from_s3 ==
  /\ cmd = "restore" /\ ~Ended /\ pc = "opencode"
  /\ AllDone(tasks.opencode)
  /\ LET errs == errors \o count_results(tasks.opencode, "OpenCode dir download error")
     IN  /\ errors' = errs
         /\ exit_code' = ExitOfReturn(errs)
  /\ pc' = "returned"
  /\ UNCHANGED <<vcs, args, cmd, entry, dry_run, force, manifest, localdirs, tasks, mf, store, disk,
                 written, failures, walk, run, disk0, retried>>

\* the restore command is run a second time on the machine a first, fully successful
\* run left behind, against the same backup
RunAgain ==
  /\ cmd = "restore" /\ run = 1 /\ ~dry_run
  /\ pc = "returned" /\ exit_code = 0 /\ failures = {}
  /\ run' = 2
  /\ disk0' = disk
  /\ force' \in BOOLEAN
  /\ pc' = "start"
  /\ tasks' = NoTasks
  /\ written' = {}
  /\ errors' = <<>>
  /\ exit_code' = NotExited
  /\ retried' = {}
  /\ vcs' = {}
  /\ UNCHANGED <<args, cmd, entry, dry_run, manifest, localdirs, mf, store, disk, failures, walk>>

RestoreNext ==
  \/ \E o \in FetchOutcomes : run_restore(o)
  \/ \E o \in {"ok", "exception"} : RestoreDryRun(o)
  \/ \E o \in LoadOutcomes : load_manifest(o)
  \/ \E i \in 1..MaxRepos : clone_repo_start(i)
  \/ \E i \in 1..MaxRepos, o \in CloneOutcomes : clone_repo(i, o)
  \/ gather_clones
  \/ \E i \in 1..MaxRepos, o \in PinOutcomes : restore_workspace(i, o)
  \/ gather_pins
  \/ \E i \in 1..MaxRepos, o \in WsOutcomes : workspace_add(i, o)
  \/ \E i \in 1..MaxRepos, o \in PinOutcomes : workspace_pin(i, o)
  \/ gather_workspaces
  \/ \E ph \in {"files", "claude", "opencode"}, i \in 1..(MaxFiles + MaxAgentFiles) :
       cmd = "restore" /\ S3Acquire(ph, i)
  \/ \E ph \in {"files", "claude", "opencode"}, i \in 1..(MaxFiles + MaxAgentFiles),
        o \in DownloadOutcomes : s3_download_file(ph, i, o)
  \/ \E oserr \in OsErrors : restore_files_from_s3(oserr)
  \/ \E ph \in {"claude", "opencode"}, o \in ListOutcomes : s3_list_objects(ph, o)
  \/ restore_claude_dir_from_s3
  \/ restore_opencode_dir_from_s3
  \/ RunAgain
  \/ \E left \in BOOLEAN : Deadline(left)

SpecRestore == RestoreInit /\ [][RestoreNext]_vars

\* a restore of two repositories, a file and a symlink, with both agent directories
\* empty in the backup: what a failed clone leaves of the rest of the work
CloneFailureInit ==
  /\ vcs = {}
  /\ args = ValidatedArgs
  /\ cmd = "restore"
  /\ entry = "s3"
  /\ force = FALSE
  /\ dry_run = FALSE
  /\ manifest = Benign(2, 1, <<Link1>>)
  /\ localdirs = AgentObjectsListed(0)
  /\ disk \in {FreshDisk, {Abs(manifest.workspaces[1].workspaces[1].path)}}
  /\ store = BackupObjects(manifest) \cup AgentObjects(localdirs)
  /\ pc = "start"
  /\ tasks = NoTasks
  /\ mf = Waiting
  /\ written = {}
  /\ errors = <<>>
  /\ failures = {}
  /\ exit_code = NotExited
  /\ walk = {}
  /\ run = 1
  /\ disk0 = disk
  /\ retried = {}

CloneFailureNext ==
  \/ \E o \in FetchOutcomes : run_restore(o)
  \/ \E i \in 1..2 : clone_repo_start(i)
  \/ \E i \in 1..2, o \in CloneOutcomes : clone_repo(i, o)
  \/ gather_clones
  \/ \E i \in 1..2, o \in PinOutcomes : restore_workspace(i, o)
  \/ gather_pins
  \/ \E i \in 1..2, o \in WsOutcomes : workspace_add(i, o)
  \/ \E i \in 1..2, o \in PinOutcomes : workspace_pin(i, o)
  \/ gather_workspaces
  \/ S3Acquire("files", 1)
  \/ \E o \in DownloadOutcomes : s3_download_file("files", 1, o)
  \/ \E oserr \in OsErrors : restore_files_from_s3(oserr)
  \/ \E ph \in {"claude", "opencode"}, o \in ListOutcomes : s3_list_objects(ph, o)
  \/ restore_claude_dir_from_s3
  \/ restore_opencode_dir_from_s3
  \/ \E left \in BOOLEAN : Deadline(left)

SpecCloneFailure == CloneFailureInit /\ [][CloneFailureNext]_vars

\* a manifest of two repositories found on disk, the first with two non-default
\* workspaces and the second with one
WorkspacesManifest ==
  [root_dir |-> Home,
   workspaces |->
     << [Repo(1) EXCEPT !.workspaces =
           <<Workspace("default", Home \o <<"p1">>),
             Workspace("w1", Home \o <<"ws", "w1">>),
             Workspace("w2", Home \o <<"ws", "w2">>)>>],
        [Repo(2) EXCEPT !.workspaces =
           <<Workspace("default", Home \o <<"p2">>),
             Workspace("w3", Home \o <<"ws", "w3">>)>>] >>,
   files |-> <<>>, symlinks |-> <<>>]

WorkspacesInit ==
  /\ vcs = {}
  /\ args = ValidatedArgs
  /\ cmd = "restore"
  /\ entry = "manifest_file"
  /\ force = FALSE
  /\ dry_run = FALSE
  /\ manifest = WorkspacesManifest
  /\ localdirs = AgentObjectsListed(0)
  /\ disk \in {ReposOnDisk(manifest),
               ReposOnDisk(manifest) \cup {Home \o <<"ws", "w1">>},
               ReposOnDisk(manifest) \cup {Home \o <<"ws", "w2">>}}
  /\ store = {}
  /\ pc = "start"
  /\ tasks = NoTasks
  /\ mf = Waiting
  /\ written = {}
  /\ errors = <<>>
  /\ failures = {}
  /\ exit_code = NotExited
  /\ walk = {}
  /\ run = 1
  /\ disk0 = disk
  /\ retried = {}

WorkspacesNext ==
  \/ \E o \in LoadOutcomes : load_manifest(o)
  \/ gather_clones
  \/ \E i \in 1..2, o \in PinOutcomes : restore_workspace(i, o)
  \/ gather_pins
  \/ \E i \in 1..2, o \in WsOutcomes : workspace_add(i, o)
  \/ \E i \in 1..2, o \in PinOutcomes : workspace_pin(i, o)
  \/ gather_workspaces
  \/ \E left \in BOOLEAN : Deadline(left)

SpecWorkspaces == WorkspacesInit /\ [][WorkspacesNext]_vars

\* manifests of two repositories to clone, the second one's default path inside the
\* first one's, or the same as the first one's
NestedManifests ==
  {[Benign(2, 0, <<>>) EXCEPT !.workspaces[2].workspaces =
      <<Workspace("default", p)>>] : p \in {Home \o <<"p1", "sub">>, Home \o <<"p1">>}}

NestedClonesInit ==
  /\ vcs = {}
  /\ args = ValidatedArgs
  /\ cmd = "restore"
  /\ entry = "manifest_file"
  /\ force = FALSE
  /\ dry_run = FALSE
  /\ manifest \in NestedManifests
  /\ localdirs = AgentObjectsListed(0)
  /\ disk = FreshDisk
  /\ store = {}
  /\ pc = "start"
  /\ tasks = NoTasks
  /\ mf = Waiting
  /\ written = {}
  /\ errors = <<>>
  /\ failures = {}
  /\ exit_code = NotExited
  /\ walk = {}
  /\ run = 1
  /\ disk0 = disk
  /\ retried = {}

NestedClonesNext ==
  \/ \E o \in LoadOutcomes : load_manifest(o)
  \/ \E i \in 1..2 : clone_repo_start(i)
  \/ \E i \in 1..2, o \in CloneOutcomes : clone_repo(i, o)
  \/ gather_clones
  \/ \E i \in 1..2, o \in PinOutcomes : restore_workspace(i, o)
  \/ gather_pins
  \/ \E i \in 1..2, o \in WsOutcomes : workspace_add(i, o)
  \/ \E i \in 1..2, o \in PinOutcomes : workspace_pin(i, o)
  \/ gather_workspaces
  \/ \E left \in BOOLEAN : Deadline(left)

SpecNestedClones == NestedClonesInit /\ [][NestedClonesNext]_vars

\* the clone phase of a restore of more repositories than MAX_CONCURRENT_CLONES
MaxCloneRepos == 5

ClonePhaseInit ==
  /\ vcs = {}
  /\ args = ValidatedArgs
  /\ cmd = "restore"
  /\ entry \in Entries
  /\ force \in BOOLEAN
  /\ dry_run = FALSE
  /\ manifest = Benign(MaxCloneRepos, 0, <<>>)
  /\ localdirs = AgentObjectsListed(0)
  /\ disk \in {FreshDisk, {Abs(manifest.workspaces[1].workspaces[1].path)}}
  /\ store = (IF entry = "s3" THEN BackupObjects(manifest) ELSE {})
  /\ pc = "start"
  /\ tasks = NoTasks
  /\ mf = Waiting
  /\ written = {}
  /\ errors = <<>>
  /\ failures = {}
  /\ exit_code = NotExited
  /\ walk = {}
  /\ run = 1
  /\ disk0 = disk
  /\ retried = {}

ClonePhaseNext ==
  \/ \E o \in FetchOutcomes : run_restore(o)
  \/ \E o \in LoadOutcomes : load_manifest(o)
  \/ \E i \in 1..MaxCloneRepos : clone_repo_start(i)
  \/ \E i \in 1..MaxCloneRepos, o \in CloneOutcomes : clone_repo(i, o)
  \/ gather_clones
  \/ \E left \in BOOLEAN : Deadline(left)

SpecClonePhase == ClonePhaseInit /\ [][ClonePhaseNext]_vars

\* a backup of more loose files than MAX_CONCURRENT_S3_OPS, all uploads succeeding; the
\* coroutines enter the semaphore in the order gather was given them, and of the
\* schedules of their completions the one in that same order is followed
MaxS3Ops == 21

ManyFiles == [i \in 1..MaxS3Ops |-> <<"d", ToString(i)>>]

S3PhaseInit ==
  /\ vcs = {}
  /\ args = ValidatedArgs
  /\ cmd = "backup"
  /\ entry = "none"
  /\ dry_run = FALSE
  /\ force = FALSE
  /\ manifest = [root_dir |-> Home, workspaces |-> <<>>, files |-> ManyFiles,
                 symlinks |-> <<>>]
  /\ localdirs \in [{"claude", "opencode"} ->
                      {[exists |-> TRUE, files |-> SubSeq(AgentFileNames, 1, k)] : k \in 1..2}]
  /\ pc = "start"
  /\ tasks = NoTasks
  /\ mf = Waiting
  /\ store = {}
  /\ disk = {}
  /\ written = {}
  /\ errors = <<>>
  /\ failures = {}
  /\ exit_code = NotExited
  /\ walk = {}
  /\ run = 1
  /\ disk0 = disk
  /\ retried = {}

Earlier(ph, i) == {j \in DOMAIN tasks[ph] : j < i}

S3PhaseNext ==
  \/ BackupStart
  \/ \E ph \in {"files", "claude", "opencode"}, i \in 1..MaxS3Ops :
       /\ cmd = "backup"
       /\ \A j \in Earlier(ph, i) : tasks[ph][j].st # "waiting"
       /\ S3Acquire(ph, i)
  \/ \E ph \in {"files", "claude", "opencode"}, i \in 1..MaxS3Ops :
       /\ \A j \in Earlier(ph, i) : IsTerminal(tasks[ph][j])
       /\ s3_upload_file(ph, i, "success")
  \/ sync_files_to_s3
  \/ sync_claude_dir_to_s3
  \/ sync_opencode_dir_to_s3
  \/ s3_upload_bytes("success")

SpecS3Phase == S3PhaseInit /\ [][S3PhaseNext]_vars

\* one invocation of either command
InvocationInit == BackupInit \/ RestoreInit

InvocationNext == BackupNext \/ RestoreNext

SpecInvocation == InvocationInit /\ [][InvocationNext]_vars

----------------------------------------------------------------------------
(* Discovery: the paths generate_manifest writes into a manifest *)

MaxEntries == 2

SKIP_DIRS == {"node_modules"}

DotNames == {".cfg", ".dotfiles", "..", ".hidden", ".jj"}

startswith_dot(name) == name \in DotNames

should_skip_dir(name) == name # ".dotfiles" /\ (name \in SKIP_DIRS \/ startswith_dot(name))

Parent(p) == SubSeq(p, 1, Len(p) - 1)

\* PurePath.relative_to compares the parts as written; it raises ValueError (FALSE
\* here) when root's parts are not a prefix of path's
CanRelativeTo(path, root) == IsPrefix(root, path)

relative_to(path, root) == SubSeq(path, Len(root) + 1, Len(path))

LinkPaths == {Home \o <<"l1">>, Home \o <<"d", "l2">>, Home \o <<".cfg">>,
              Home \o <<"node_modules", "l3">>, Home \o <<".dotfiles", "l4">>}

ReadlinkTargets ==
  {<<"f1">>, <<"..", "f1">>, <<"..", "..", "etc">>, <<"/", "home", "f1">>, <<"/", "home">>,
   <<"/", "etc">>, <<"/", "home", "..", "etc">>}

FilePaths ==
  {Home \o <<"f1">>, Home \o <<"d", "f2">>, Home \o <<".dotfiles", "README">>,
   Home \o <<"p", "README">>, Home \o <<"p", ".hidden">>, Home \o <<"p", "ws", "src">>,
   Home \o <<"p", "docs", "n">>, Home \o <<"p", "docs", "node_modules", "x">>,
   Home \o <<"p", "node_modules", "m">>, Home \o <<"p", ".hidden", "h">>,
   Home \o <<"p", "q", "g">>, Home \o <<"n..m">>}

\* the .jj directories of a machine: none; a workspace directly under root_dir; one
\* under a parent directory; one under .dotfiles; workspaces under a parent and under
\* a directory of that parent; a workspace inside a workspace
JjLayouts ==
  {{},
   {Home \o <<"d", ".jj">>},
   {Home \o <<"p", "ws", ".jj">>},
   {Home \o <<".dotfiles", "sub", ".jj">>},
   {Home \o <<"p", "ws", ".jj">>, Home \o <<"p", "q", "ws2", ".jj">>},
   {Home \o <<"p", ".jj">>, Home \o <<"p", "ws", ".jj">>}}

DirEntries ==
  [kind : {"link"}, path : LinkPaths, target : ReadlinkTargets, oserror : BOOLEAN] \cup
  [kind : {"file"}, path : FilePaths, target : {<<>>}, oserror : BOOLEAN]

RECURSIVE WalksOf(_)
WalksOf(n) ==
  IF n = 0 THEN {{}}
  ELSE LET smaller == WalksOf(n - 1)
       IN smaller \cup
          {w \cup {e} : <<w, e>> \in {x \in smaller \X DirEntries :
                                       \A a \in x[1] : a.path # x[2].path}}

Walks == WalksOf(MaxEntries)

EmptyManifest == [root_dir |-> Home, workspaces |-> <<>>, files |-> <<>>, symlinks |-> <<>>]

DiscoverInit ==
  /\ vcs = {}
  /\ args = ValidatedArgs
  /\ cmd = "discover"
  /\ walk \in Walks
  /\ manifest = EmptyManifest
  /\ pc = "walk"
  /\ entry = "s3" /\ dry_run = FALSE /\ force = FALSE
  /\ localdirs = AgentObjectsListed(0)
  /\ tasks = NoTasks /\ mf = Waiting
  /\ store = {} /\ disk \in JjLayouts /\ written = {}
  /\ errors = <<>> /\ failures = {}
  /\ exit_code = NotExited
  /\ run = 1 /\ disk0 = {}
  /\ retried = {}

\* (directory / ".jj").exists()
has_jj(directory) == (directory \o <<".jj">>) \in disk

\* the workspace paths find_jj_directories returns, primary repositories and other
\* workspaces alike: os.walk from root_dir leaves out the directories should_skip_dir
\* names and does not descend below a directory that has a .jj
find_jj_directories(root_dir) ==
  {d \in {Parent(j) : j \in disk} :
     /\ IsPrefix(root_dir, d)
     /\ \A k \in (Len(root_dir) + 1)..Len(d) : ~should_skip_dir(d[k])
     /\ \A k \in Len(root_dir)..(Len(d) - 1) : ~has_jj(SubSeq(d, 1, k))}

identify_workspace_tree_parents(root_dir) ==
  LET workspace_paths == find_jj_directories(root_dir)
  IN  {parent \in {Parent(ws_path) : ws_path \in workspace_paths} :
         parent # root_dir /\ parent \notin workspace_paths /\ ~has_jj(parent)}

\* a regular file; a size or content that cannot be read is the entry's oserror
should_backup_file(e) == ~startswith_dot(e.path[Len(e.path)]) /\ ~e.oserror

\* collect_files_in_directory(directory, exclude_paths, ...) reaches the file: its
\* os.walk starts in directory and leaves out the directories that should_skip_dir
\* names or that are excluded
collect_files_in_directory(directory, exclude_paths, e) ==
  /\ IsPrefix(directory, Parent(e.path))
  /\ directory \notin exclude_paths
  /\ \A k \in (Len(directory) + 1)..(Len(e.path) - 1) :
        ~should_skip_dir(e.path[k]) /\ SubSeq(e.path, 1, k) \notin exclude_paths
  /\ should_backup_file(e)

\* the tree parents whose contents (part 2 of discover_files) hold the file
TreeParentsCollecting(e, root_dir) ==
  LET workspace_paths == find_jj_directories(root_dir)
  IN  {tree_parent \in identify_workspace_tree_parents(root_dir) :
         /\ IsPrefix(tree_parent, Parent(e.path))
         /\ LET item == SubSeq(e.path, 1, Len(tree_parent) + 1)
            IN  IF item = e.path
                THEN should_backup_file(e)
                ELSE /\ item \notin workspace_paths
                     /\ ~startswith_dot(item[Len(item)])
                     /\ collect_files_in_directory(item, workspace_paths, e)}

\* how many times discover_files hands the file to make_file_entry: once if it is
\* directly in root_dir, and once for every tree parent that holds it
discover_files(e, root_dir) ==
  (IF Parent(e.path) = root_dir /\ should_backup_file(e) THEN 1 ELSE 0)
    + Cardinality(TreeParentsCollecting(e, root_dir))

\* os.walk never descends into a directory should_skip_dir names
Pruned(path, root_dir) ==
  \E k \in (Len(root_dir) + 1)..(Len(path) - 1) : should_skip_dir(path[k])

resolved_target(e) ==
  IF IsAbsolute(e.target) THEN e.target ELSE Resolve(Join(Parent(e.path), e.target))

\* the body of collect_symlinks' loop for one symlink: the SymlinkEntry it appends,
\* or nothing
SymlinkEntries(e, root_dir) ==
  IF \/ \E ws \in find_jj_directories(root_dir) : IsPrefix(ws, Parent(e.path))
     \/ Pruned(e.path, root_dir)
     \/ e.oserror
     \/ ~CanRelativeTo(resolved_target(e), root_dir)
     \/ ~CanRelativeTo(e.path, root_dir)
     \/ startswith_dot(relative_to(e.path, root_dir)[1])
  THEN <<>>
  ELSE <<[relative_path |-> relative_to(e.path, root_dir),
          target |-> relative_to(resolved_target(e), root_dir)]>>

collect_symlinks(e) ==
  /\ cmd = "discover" /\ pc = "walk"
  /\ e \in walk /\ e.kind = "link"
  /\ walk' = walk \ {e}
  /\ manifest' = [manifest EXCEPT !.symlinks = @ \o SymlinkEntries(e, manifest.root_dir)]
  /\ UNCHANGED <<vcs, args, cmd, entry, dry_run, force, localdirs, pc, tasks, mf, store, disk,
                 written, errors, failures, exit_code, run, disk0, retried>>

make_file_entry(e) ==
  /\ cmd = "discover" /\ pc = "walk"
  /\ e \in walk /\ e.kind = "file"
  /\ walk' = walk \ {e}
  /\ manifest' = [manifest EXCEPT !.files =
                    IF e.oserror \/ ~CanRelativeTo(e.path, manifest.root_dir)
                    THEN @
                    ELSE @ \o [i \in 1..discover_files(e, manifest.root_dir) |->
                                 relative_to(e.path, manifest.root_dir)]]
  /\ UNCHANGED <<vcs, args, cmd, entry, dry_run, force, localdirs, pc, tasks, mf, store, disk,
                 written, errors, failures, exit_code, run, disk0, retried>>

generate_manifest ==
  /\ cmd = "discover" /\ pc = "walk" /\ walk = {}
  /\ pc' = "returned"
  /\ UNCHANGED <<vcs, args, cmd, entry, dry_run, force, manifest, localdirs, tasks, mf, store, disk,
                 written, errors, failures, exit_code, walk, run, disk0, retried>>

DiscoverNext ==
  \/ \E e \in DirEntries : collect_symlinks(e)
  \/ \E e \in DirEntries : make_file_entry(e)
  \/ generate_manifest

SpecDiscover == DiscoverInit /\ [][DiscoverNext]_vars

----------------------------------------------------------------------------
(* Names: cmd_backup, cmd_list_backups and cmd_restore validate their names *)

Nodenames == {<<"a">>, <<"a", ".">>, <<".">>, <<"-", "a">>}

\* the names of the two directories build_s3_paths keeps the agent data under
ClaudeCodeDir == <<"c", "l", "a", "u", "d", "e", "-", "c", "o", "d", "e">>
OpenCodeDir == <<"o", "p", "e", "n", "c", "o", "d", "e">>

\* a --machine given on a host whose nodename does not matter, or none given, or a
\* machine called as one of the agent directories
NamesArgs ==
  [machine : NamesOf(MaxNameLen) \ {<<>>}, name : NamesOf(MaxNameLen), nodename : {<<"a">>}]
    \cup [machine : {<<>>}, name : NamesOf(MaxNameLen), nodename : Nodenames]
    \cup [machine : {ClaudeCodeDir, OpenCodeDir}, name : NamesOf(MaxNameLen),
          nodename : {<<"a">>}]

NamesInit ==
  /\ vcs = {}
  /\ cmd \in {"backup", "list-backups", "restore"}
  /\ args \in NamesArgs
  /\ pc = "start"
  /\ entry = "s3" /\ dry_run = FALSE /\ force = FALSE
  /\ manifest = EmptyManifest
  /\ localdirs = AgentObjectsListed(0)
  /\ tasks = NoTasks /\ mf = Waiting
  /\ store = {} /\ disk = {} /\ written = {}
  /\ errors = <<>> /\ failures = {}
  /\ exit_code = NotExited
  /\ walk = {}
  /\ run = 1 /\ disk0 = {}
  /\ retried = {}

\* f"{base}/{machine}/{backup_name}/" below the base: the characters after "{base}/"
build_s3_paths(machine, backup_name) == machine \o <<"/">> \o backup_name \o <<"/">>

\* the second and third path build_s3_paths returns, below the same base
claude_path(machine) == ClaudeCodeDir \o <<"/">> \o machine \o <<"/">>

opencode_path(machine) == OpenCodeDir \o <<"/">> \o machine \o <<"/">>

\* the segments of a key, split at "/"
RECURSIVE Segments(_, _)
Segments(s, seg) ==
  IF s = <<>> THEN <<seg>>
  ELSE IF Head(s) = "/" THEN <<seg>> \o Segments(Tail(s), <<>>)
  ELSE Segments(Tail(s), Append(seg, Head(s)))

NamesEnd(position) ==
  /\ pc' = position
  /\ exit_code' = IF position = "ValueError" THEN ExitOfException("ValueError") ELSE NotExited
  /\ UNCHANGED <<vcs, args, cmd, entry, dry_run, force, manifest, localdirs, tasks, mf, store,
                 disk, written, errors, failures, walk, run, disk0, retried>>

cmd_backup ==
  /\ cmd = "backup" /\ pc = "start"
  /\ NamesEnd(IF ~validate_safe_name(machine_of(args)) THEN "ValueError"
              ELSE IF ~validate_safe_name(args.name) THEN "ValueError"
              ELSE "validated")

cmd_list_backups ==
  /\ cmd = "list-backups" /\ pc = "start"
  /\ NamesEnd(IF ~validate_safe_name(machine_of(args)) THEN "ValueError" ELSE "list_backups")

cmd_restore ==
  /\ cmd = "restore" /\ pc = "start"
  /\ NamesEnd(IF ~validate_safe_name(machine_of(args)) THEN "ValueError"
              ELSE IF args.name = <<>> THEN "list_backups"
              ELSE IF ~validate_safe_name(args.name) THEN "ValueError"
              ELSE "validated")

NamesNext ==
  \/ cmd_backup
  \/ cmd_list_backups
  \/ cmd_restore

SpecNames == NamesInit /\ [][NamesNext]_vars

----------------------------------------------------------------------------
(* The jj driver: get_current_state, check_workspace_state, restore_workspace *)

\* the change ids a workspace can be on; ExpectedChange is the one a manifest records
ExpectedChange == "c"
Changes == {"c", "x"}

\* what jj answers to one get_current_state: the first log, update-stale, the second log
JjAnswers ==
  [first : {"ok", "stale", "STALE", "error", "empty"}, update : {"ok", "failed"},
   retry : {"ok", "stale", "error"}]

\* "stale" in stderr.lower()
IsStale(answer) == answer \in {"stale", "STALE"}

\* the commands get_current_state issues under the answers a, and the change id it
\* returns ("error" when it raises JJOutputError): before is the change the workspace
\* shows as it is, after the one it shows once update-stale has run
get_current_state(a, before, after) ==
  IF IsStale(a.first)
  THEN IF a.update = "failed"
       THEN [calls |-> <<"log", "update-stale">>, value |-> "error"]
       ELSE IF a.retry = "ok"
            THEN [calls |-> <<"log", "update-stale", "log_divergent", "log", "bookmark_list">>,
                  value |-> after]
            ELSE [calls |-> <<"log", "update-stale", "log_divergent", "log">>,
                  value |-> "error"]
  ELSE IF a.first = "ok"
       THEN [calls |-> <<"log", "bookmark_list">>, value |-> before]
       ELSE [calls |-> <<"log">>, value |-> "error"]

\* get_git_remotes: {} ("error" here) when the command fails
get_git_remotes(a, before, after) ==
  IF IsStale(a.first)
  THEN IF a.update = "failed"
       THEN [calls |-> <<"git_remote_list", "update-stale">>, value |-> "error"]
       ELSE [calls |-> <<"git_remote_list", "update-stale", "log_divergent",
                         "git_remote_list">>,
             value |-> IF a.retry = "ok" THEN after ELSE "error"]
  ELSE [calls |-> <<"git_remote_list">>,
        value |-> IF a.first \in {"ok", "empty"} THEN before ELSE "error"]

\* get_workspace_names: ["default"] ("error" here) when the command fails
get_workspace_names(a, before, after) ==
  [calls |-> <<"workspace_list">>,
   value |-> IF a.first \in {"ok", "empty"} THEN before ELSE "error"]

\* get_uncommitted_changes: [] ("error" here) when the command fails
get_uncommitted_changes(a, before, after) ==
  IF a.first = "ok"
  THEN [calls |-> <<"log_uncommitted", "bookmark_list">>, value |-> before]
  ELSE [calls |-> <<"log_uncommitted">>,
        value |-> IF a.first = "empty" THEN before ELSE "error"]

ReadOps == {"get_git_remotes", "get_current_state", "get_workspace_names",
            "get_uncommitted_changes"}

\* the jj command a read is about
CommandOf(op) ==
  CASE op = "get_git_remotes" -> "git_remote_list"
    [] op = "get_current_state" -> "log"
    [] op = "get_workspace_names" -> "workspace_list"
    [] OTHER -> "log_uncommitted"

ReadsInit ==
  /\ cmd = "manifest"
  /\ pc = "read"
  /\ vcs \in [op : ReadOps, answers : JjAnswers, calls : {<<>>}, value : {"none"}]
  /\ manifest = EmptyManifest
  /\ args = ValidatedArgs
  /\ entry = "none" /\ dry_run = FALSE /\ force = FALSE
  /\ localdirs = AgentObjectsListed(0)
  /\ tasks = NoTasks /\ mf = Waiting
  /\ store = {} /\ disk = {} /\ written = {}
  /\ errors = <<>> /\ failures = {}
  /\ exit_code = NotExited
  /\ walk = {}
  /\ run = 1 /\ disk0 = {}
  /\ retried = {}

\* one read of a workspace that shows change "x" and, after update-stale, "c"
jj_read(op) ==
  /\ cmd = "manifest" /\ pc = "read" /\ vcs.op = op
  /\ LET r == CASE op = "get_git_remotes" -> get_git_remotes(vcs.answers, "x", "c")
             [] op = "get_current_state" -> get_current_state(vcs.answers, "x", "c")
             [] op = "get_workspace_names" -> get_workspace_names(vcs.answers, "x", "c")
             [] OTHER -> get_uncommitted_changes(vcs.answers, "x", "c")
     IN  vcs' = [vcs EXCEPT !.calls = r.calls, !.value = r.value]
  /\ pc' = "read_done"
  /\ UNCHANGED <<args, cmd, entry, dry_run, force, manifest, localdirs, tasks, mf, store,
                 disk, written, errors, failures, exit_code, walk, run, disk0, retried>>

ReadsNext == \E op \in ReadOps : jj_read(op)

SpecReads == ReadsInit /\ [][ReadsNext]_vars

PinInit ==
  /\ vcs \in [at : Changes, calls : {<<>>}, reads : {<<>>}, divergent : {<<>>},
              edit : {"none"}, result : {"none"}]
  /\ cmd = "restore_workspace"
  /\ pc = "check"
  /\ walk = {}
  /\ args = ValidatedArgs
  /\ entry = "none" /\ dry_run = FALSE /\ force = FALSE
  /\ manifest = EmptyManifest
  /\ localdirs = AgentObjectsListed(0)
  /\ tasks = NoTasks /\ mf = Waiting
  /\ store = {} /\ disk = {} /\ written = {}
  /\ errors = <<>> /\ failures = {}
  /\ exit_code = NotExited
  /\ run = 1 /\ disk0 = {}
  /\ retried = {}

\* restore_workspace returns (success, error_message); the caller appends the message
PinReturns(success) ==
  /\ pc' = "returned"
  /\ errors' = IF success THEN errors ELSE Append(errors, "Could not restore")

\* a pin that fails on a divergent workspace
DivergenceFailsAlways(has_divergent) == has_divergent

\* restore_workspace only warns about a divergent workspace
DivergenceFails(has_divergent) == FALSE

\* a pin that takes the edit's exit status for the verification
PinVerifiedByEdit(is_correct) == TRUE

\* "if not is_correct: return False" after the edit
PinVerified(is_correct) == is_correct

\* check_workspace_state and what restore_workspace does with its answer, up to the
\* next await: before the edit (reads = <<>>) and after it
check_workspace_state(a, has_divergent) ==
  /\ cmd = "restore_workspace" /\ pc = "check"
  /\ LET state == get_current_state(a, vcs.at, vcs.at)
         failed == state.value = "error"
         is_correct == ~failed /\ state.value = ExpectedChange
         divergent == ~failed /\ has_divergent
         first == vcs.reads = <<>>
         success == IF first THEN is_correct /\ ~DivergenceFails(divergent)
                    ELSE PinVerified(is_correct) /\ ~DivergenceFails(divergent)
     IN  /\ (failed => ~has_divergent)
         /\ vcs' = [vcs EXCEPT
                      !.calls = @ \o state.calls \o (IF failed THEN <<>> ELSE <<"log_divergent">>),
                      !.reads = Append(@, state.value),
                      !.divergent = Append(@, divergent),
                      !.result = IF success THEN "true"
                                 ELSE IF first /\ ~DivergenceFails(divergent) THEN "none"
                                 ELSE "false"]
         /\ IF success THEN PinReturns(TRUE)
            ELSE IF first /\ ~DivergenceFails(divergent)
                 THEN pc' = "edit" /\ UNCHANGED errors
                 ELSE PinReturns(FALSE)
  /\ UNCHANGED <<args, cmd, entry, dry_run, force, manifest, localdirs, tasks, mf, store,
                 disk, written, failures, exit_code, walk, run, disk0, retried>>

\* jj edit: it fails, or it succeeds and leaves the workspace on some change
jj_edit(returncode, at) ==
  /\ cmd = "restore_workspace" /\ pc = "edit"
  /\ returncode # 0 => at = vcs.at
  /\ vcs' = [vcs EXCEPT !.at = at,
                        !.calls = Append(@, "edit"),
                        !.edit = IF returncode = 0 THEN "ok" ELSE "failed",
                        !.result = IF returncode = 0 THEN "none" ELSE "false"]
  /\ IF returncode = 0
     THEN pc' = "check" /\ UNCHANGED errors
     ELSE PinReturns(FALSE)
  /\ UNCHANGED <<args, cmd, entry, dry_run, force, manifest, localdirs, tasks, mf, store,
                 disk, written, failures, exit_code, walk, run, disk0, retried>>

PinNext ==
  \/ \E a \in JjAnswers, d \in BOOLEAN : check_workspace_state(a, d)
  \/ \E rc \in {0, 1}, at \in Changes : jj_edit(rc, at)

SpecPin == PinInit /\ [][PinNext]_vars

----------------------------------------------------------------------------
(* Capture: build_repo_data, discover_repos and generate_manifest.  An URL   *)
(* and a repository name are sequences of the pieces of their text.          *)

MaxPrimary == 3

Reads(remotes, default_listed, default_read, other) ==
  [remotes |-> remotes, default_listed |-> default_listed, default_read |-> default_read,
   other |-> other]

\* what the reads of build_repo_data may give for one primary checkout: the lines of
\* "jj git remote list" in their order (<<>> also when the command fails), whether
\* "default" is among the workspace names, whether get_current_state of the primary
\* checkout succeeded, and how the read of another workspace directory went
BuildReads ==
  {Reads(<<Remote("origin", <<"https", "://", "h", "/", "x">>)>>, TRUE, TRUE, "none"),
   Reads(<<Remote("origin", <<"git", "@", "h", ":", "u", "/", "x", ".git">>)>>,
         TRUE, TRUE, "ok"),
   Reads(<<Remote("origin", <<"ssh", "://", "h", "/", "x", "-", "1", "/">>)>>,
         TRUE, TRUE, "error"),
   Reads(<<Remote("origin", <<"file", "://", "/", "etc", "/", "passwd">>),
           Remote("upstream", <<"http", "://", "h", "/", "y">>)>>, TRUE, TRUE, "none"),
   Reads(<<Remote("upstream", <<"git", "://", "h", "/", "y">>),
           Remote("origin", <<"https", "://", "h", "/", "x">>)>>, TRUE, FALSE, "ok"),
   Reads(<<Remote("upstream", <<"git", "://", "h", "/", "y">>),
           Remote("origin", <<"ext", "::", "sh">>)>>, FALSE, TRUE, "ok"),
   Reads(<<Remote("origin", <<"file", "://", "/", "etc", "/", "passwd">>)>>,
         TRUE, TRUE, "ok"),
   Reads(<<Remote("origin", <<"HTTPS", "://", "h", "/", "x">>)>>, TRUE, TRUE, "none"),
   Reads(<<Remote("origin", <<"/", "srv", "/", "x">>)>>, TRUE, TRUE, "none"),
   Reads(<<>>, TRUE, TRUE, "ok"),
   Reads(<<Remote("origin", <<"https", "://", "h", "/", "x">>)>>, FALSE, TRUE, "none"),
   Reads(<<Remote("origin", <<"https", "://", "h", "/", "x">>)>>, TRUE, FALSE, "error")}

\* what a build_repo_data coroutine has come to: still running, None, an exception
Pending == [st |-> "pending"]
None == [st |-> "None"]
Raised == [st |-> "exception"]

\* what build_repo_data returns for a primary checkout whose reads gave r
RepoDataOf(r) ==
  LET valid == valid_remotes(r.remotes)
      workspaces == (IF r.default_listed /\ r.default_read THEN {"default"} ELSE {})
                      \cup (IF r.other = "ok" THEN {"w1"} ELSE {})
  IN  IF r.remotes = <<>> \/ valid = <<>> \/ workspaces = {} THEN None
      ELSE [st |-> "RepoData", remotes |-> valid, workspaces |-> workspaces]

RECURSIVE rstrip(_, _)
rstrip(t, piece) ==
  IF t # <<>> /\ t[Len(t)] = piece THEN rstrip(SubSeq(t, 1, Len(t) - 1), piece) ELSE t

\* text.split("/")[-1]
RECURSIVE last_segment(_)
last_segment(t) ==
  IF t = <<>> \/ t[Len(t)] = "/" THEN <<>>
  ELSE Append(last_segment(SubSeq(t, 1, Len(t) - 1)), t[Len(t)])

removesuffix(t, piece) ==
  IF t # <<>> /\ t[Len(t)] = piece THEN SubSeq(t, 1, Len(t) - 1) ELSE t

\* primary_url.rstrip("/").split("/")[-1].removesuffix(".git")
derived_name(url) == removesuffix(last_segment(rstrip(url, "/")), ".git")

Keys(repos) == {repos[i].name : i \in DOMAIN repos}

\* a discover_repos that tries one suffix only
unique_name_once(base_name, counter, repos) ==
  IF counter = 0 /\ base_name \in Keys(repos) THEN base_name \o <<"-", "1">> ELSE base_name

\* the "while repo_name in repos" loop; counter = 0 stands for the bare base_name
RECURSIVE unique_name(_, _, _)
unique_name(base_name, counter, repos) ==
  LET repo_name == IF counter = 0 THEN base_name
                   ELSE base_name \o <<"-", ToString(counter)>>
  IN  IF repo_name \in Keys(repos) THEN unique_name(base_name, counter + 1, repos)
      ELSE repo_name

\* repos[repo_name] = result, on a dict kept as its items in insertion order
dict_set(repos, repo_name, result) ==
  IF repo_name \in Keys(repos)
  THEN [i \in DOMAIN repos |->
          IF repos[i].name = repo_name THEN [name |-> repo_name, data |-> result]
          ELSE repos[i]]
  ELSE Append(repos, [name |-> repo_name, data |-> result])

\* the loop of discover_repos over the gathered results, from the k-th on
RECURSIVE discover_repos(_, _, _)
discover_repos(results, k, repos) ==
  IF k > Len(results) THEN repos
  ELSE IF results[k].st # "RepoData" THEN discover_repos(results, k + 1, repos)
  ELSE discover_repos(results, k + 1,
         dict_set(repos,
                  unique_name(derived_name(primary_url(results[k].remotes)), 0, repos),
                  results[k]))

CaptureInit ==
  /\ cmd = "manifest"
  /\ pc = "discover_repos"
  /\ \E n \in 1..MaxPrimary, include \in BOOLEAN, found \in {<<>>, <<<<"f1">>>>} :
       vcs = [results |-> [i \in 1..n |-> Pending], include_files |-> include,
              files |-> found]
  /\ manifest = EmptyManifest
  /\ args = ValidatedArgs
  /\ entry = "none" /\ dry_run = FALSE /\ force = FALSE
  /\ localdirs = AgentObjectsListed(0)
  /\ tasks = NoTasks /\ mf = Waiting
  /\ store = {} /\ disk = {} /\ written = {}
  /\ errors = <<>> /\ failures = {}
  /\ exit_code = NotExited
  /\ walk = {}
  /\ run = 1 /\ disk0 = {}
  /\ retried = {}

\* one build_repo_data coroutine of the gather ends
build_repo_data(i, result) ==
  /\ cmd = "manifest" /\ pc = "discover_repos"
  /\ i \in DOMAIN vcs.results /\ vcs.results[i] = Pending
  /\ vcs' = [vcs EXCEPT !.results[i] = result]
  /\ UNCHANGED <<args, cmd, entry, dry_run, force, manifest, localdirs, pc, tasks, mf, store,
                 disk, written, errors, failures, exit_code, walk, run, disk0, retried>>

\* a generate_manifest whose files_list is the list discover_files returned
FilesListIsFiles(include_files, files) == include_files

\* files_list is not None: "files_list = files if files else None", under include_files
FilesListIsNotNone(include_files, files) == include_files /\ files # <<>>

\* cmd_manifest: the gather of discover_repos returned; the Manifest is put together
cmd_manifest ==
  /\ cmd = "manifest" /\ pc = "discover_repos"
  /\ \A i \in DOMAIN vcs.results : vcs.results[i] # Pending
  /\ manifest' = [version |-> IF vcs.include_files THEN 2 ELSE 1,
                  root_dir |-> Home,
                  workspaces |-> discover_repos(vcs.results, 1, <<>>),
                  has_files |-> FilesListIsNotNone(vcs.include_files, vcs.files),
                  files |-> IF vcs.include_files THEN vcs.files ELSE <<>>,
                  symlinks |-> <<>>]
  /\ pc' = "returned"
  /\ exit_code' = 0
  /\ UNCHANGED <<vcs, args, cmd, entry, dry_run, force, localdirs, tasks, mf, store,
                 disk, written, errors, failures, walk, run, disk0, retried>>

CaptureNext ==
  \/ \E i \in 1..MaxPrimary, r \in BuildReads : build_repo_data(i, RepoDataOf(r))
  \/ \E i \in 1..MaxPrimary : build_repo_data(i, Raised)
  \/ cmd_manifest

SpecCapture == CaptureInit /\ [][CaptureNext]_vars

\* a capture, or a restore
CaptureRestoreInit == CaptureInit \/ RestoreInit

CaptureRestoreNext == CaptureNext \/ RestoreNext

SpecCaptureRestore == CaptureRestoreInit /\ [][CaptureRestoreNext]_vars

----------------------------------------------------------------------------
(* Agent directories: the files sync_claude_dir_to_s3 selects.  A relative   *)
(* path is the sequence of the pieces of its text, "/" being a piece of its  *)
(* own, so that a path may share the text of a whitelisted one.              *)

\* the most files in the Claude directory
MaxTree == 2

CLAUDE_SYNC_PATHS ==
  {<<".claude.json">>, <<".claude.json", ".backup">>, <<"history.jsonl">>,
   <<"projects">>, <<"plans">>, <<"todos">>, <<"file-history">>,
   <<"plugins", "/", "installed_plugins.json">>,
   <<"plugins", "/", "known_marketplaces.json">>}

\* a filter that tests startswith(sync_path) alone
should_sync_by_prefix(rel_path) ==
  \E sync_path \in CLAUDE_SYNC_PATHS : IsPrefix(sync_path, rel_path)

\* path_str == sync_path, or path_str.startswith(sync_path + "/")
_should_sync_claude_path(rel_path) ==
  \E sync_path \in CLAUDE_SYNC_PATHS :
     \/ rel_path = sync_path
     \/ IsPrefix(sync_path \o <<"/">>, rel_path)

\* the files os.walk may find under the Claude directory, in the order it yields them
ClaudeTree ==
  << <<".claude.json">>,
     <<".claude.json", ".backup">>,
     <<".claude.json", ".lock">>,
     <<".credentials.json">>,
     <<"history.jsonl">>,
     <<"plugins", "/", "installed_plugins.json">>,
     <<"plugins", "/", "other.json">>,
     <<"projects">>,
     <<"projects", "/", "a", "/", "s.jsonl">>,
     <<"projects", "-old", "/", "x">>,
     <<"settings.json">>,
     <<"x", "/", "projects", "/", "a">> >>

\* the subsequences of ClaudeTree from index k on, of at most n files
RECURSIVE TreesOf(_, _)
TreesOf(k, n) ==
  IF n = 0 \/ k > Len(ClaudeTree) THEN {<<>>}
  ELSE TreesOf(k + 1, n) \cup {<<ClaudeTree[k]>> \o t : t \in TreesOf(k + 1, n - 1)}

ClaudeKey(rel_path) == <<"claude-code", "/">> \o rel_path

AgentSyncInit ==
  /\ cmd = "sync_claude_dir_to_s3"
  /\ pc = "walk"
  /\ dry_run \in BOOLEAN
  /\ \E t \in TreesOf(1, MaxTree), e \in BOOLEAN :
       /\ e \/ t = <<>>
       /\ localdirs = [claude |-> [exists |-> e, files |-> t],
                       opencode |-> [exists |-> FALSE, files |-> <<>>]]
  /\ walk = <<>>
  /\ vcs = {}
  /\ args = ValidatedArgs
  /\ entry = "none" /\ force = FALSE
  /\ manifest = EmptyManifest
  /\ tasks = NoTasks /\ mf = Waiting
  /\ store = {} /\ disk = {} /\ written = {}
  /\ errors = <<>> /\ failures = {}
  /\ exit_code = NotExited
  /\ run = 1 /\ disk0 = {}
  /\ retried = {}

\* sync_claude_dir_to_s3 up to the gather of run_parallel_s3_ops: the walk collects
\* local_files (kept in walk), and nothing is uploaded from a missing directory, from
\* an empty selection or on a dry run
collect_claude_files ==
  /\ cmd = "sync_claude_dir_to_s3" /\ pc = "walk"
  /\ LET local_files == SelectSeq(localdirs.claude.files, _should_sync_claude_path)
     IN  IF ~localdirs.claude.exists \/ local_files = <<>> \/ dry_run
         THEN /\ pc' = "returned"
              /\ UNCHANGED <<walk, tasks>>
         ELSE /\ pc' = "claude"
              /\ walk' = local_files
              /\ tasks' = [tasks EXCEPT !.claude = UploadTasks(local_files)]
  /\ UNCHANGED <<vcs, args, cmd, entry, dry_run, force, manifest, localdirs, mf, store, disk,
                 written, errors, failures, exit_code, run, disk0, retried>>

\* one attempt of s3_upload_file for local_files[i]
upload_file(i, outcome) ==
  /\ cmd = "sync_claude_dir_to_s3" /\ pc = "claude"
  /\ i \in DOMAIN tasks.claude
  /\ tasks.claude[i].st = "running"
  /\ tasks' = [tasks EXCEPT !.claude[i] = S3Attempt(tasks.claude[i], outcome)]
  /\ store' = IF outcome = "success" THEN store \cup {ClaudeKey(walk[i])} ELSE store
  /\ retried' = Retried(tasks.claude[i], outcome)
  /\ UNCHANGED <<vcs, args, cmd, entry, dry_run, force, manifest, localdirs, pc, mf, disk,
                 written, errors, failures, exit_code, walk, run, disk0>>

\* run_parallel_s3_ops returns the counts; exceptions go to errors_list
claude_files_uploaded ==
  /\ cmd = "sync_claude_dir_to_s3" /\ pc = "claude"
  /\ UploadsGathered("claude")
  /\ errors' = errors \o count_results(tasks.claude, "Claude dir upload error")
  /\ pc' = "returned"
  /\ UNCHANGED <<vcs, args, cmd, entry, dry_run, force, manifest, localdirs, tasks, mf, store,
                 disk, written, failures, exit_code, walk, run, disk0, retried>>

AgentSyncNext ==
  \/ collect_claude_files
  \/ \E i \in 1..MaxTree : S3Acquire("claude", i)
  \/ \E i \in 1..MaxTree, o \in S3Outcomes : upload_file(i, o)
  \/ claude_files_uploaded

SpecAgentSync == AgentSyncInit /\ [][AgentSyncNext]_vars

----------------------------------------------------------------------------
(* Agent directories: the objects restore_claude_dir_from_s3 and             *)
(* restore_opencode_dir_from_s3 download.  An object is its key below the    *)
(* base key (the pieces of its text) and its LastModified, a day number.     *)

\* the most objects listed under an agent directory's prefix
MaxListed == 2

OPENCODE_SYNC_DIRS == {<<"session">>, <<"message">>, <<"part">>, <<"project">>, <<"todo">>}

\* Path(rel_path).parts[0]: the text before the first "/" of a relative path
RECURSIVE first_part(_)
first_part(rel_path) ==
  IF rel_path = <<>> \/ Head(rel_path) = "/" THEN <<>>
  ELSE <<Head(rel_path)>> \o first_part(Tail(rel_path))

_should_sync_opencode_path(rel_path) == first_part(rel_path) \in OPENCODE_SYNC_DIRS

Object(rel_path, last_modified) == [key |-> rel_path, last_modified |-> last_modified]

\* --sessions-after, when given
Cutoff == 2

\* the objects a listing may return, in the order it returns them
Listable ==
  << Object(<<"session", "/", "a">>, Cutoff - 1),
     Object(<<"session", "/", "b">>, Cutoff),
     Object(<<"message", "/", "c">>, Cutoff + 1),
     Object(<<"session", "/", "n..m">>, Cutoff + 1),
     Object(<<"/", "session", "/", "d">>, Cutoff + 1),
     Object(<<"cache", "/", "e">>, Cutoff + 1),
     Object(<<".credentials.json">>, Cutoff + 1),
     Object(<<"session", "/">>, Cutoff + 1) >>

RECURSIVE ListingsOf(_, _)
ListingsOf(k, n) ==
  IF n = 0 \/ k > Len(Listable) THEN {<<>>}
  ELSE ListingsOf(k + 1, n) \cup {<<Listable[k]>> \o t : t \in ListingsOf(k + 1, n - 1)}

AgentOf(c) == IF c = "restore_claude_dir_from_s3" THEN "claude" ELSE "opencode"

\* local_dir / rel_path
LocalOf(ph, rel_path) == <<"/", ph, "/">> \o rel_path

NoSelection == [to_download |-> <<>>, skipped_by_date |-> 0, skipped_existing |-> <<>>]

\* the loop over the listed objects: what it adds for one object
select_object(ph, obj, sel) ==
  IF args.has_after /\ obj.last_modified < args.after
  THEN [sel EXCEPT !.skipped_by_date = @ + 1]
  ELSE IF ph = "opencode" /\ obj.key[Len(obj.key)] = "/"
  THEN sel
  ELSE IF Head(obj.key) = "/" \/ HasDotDot(obj.key)
  THEN [sel EXCEPT !.skipped_by_date = @ + 1]
  ELSE IF ph = "opencode" /\ ~_should_sync_opencode_path(obj.key)
  THEN sel
  ELSE IF LocalOf(ph, obj.key) \in disk /\ ~force
  THEN [sel EXCEPT !.skipped_existing = Append(@, obj.key)]
  ELSE [sel EXCEPT !.to_download = Append(@, obj)]

RECURSIVE select_objects(_, _, _)
select_objects(ph, objects, sel) ==
  IF objects = <<>> THEN sel
  ELSE select_objects(ph, Tail(objects), select_object(ph, Head(objects), sel))

AgentRestoreInit ==
  /\ cmd \in {"restore_claude_dir_from_s3", "restore_opencode_dir_from_s3"}
  /\ pc = "list"
  /\ dry_run \in BOOLEAN /\ force \in BOOLEAN
  /\ \E has_after \in BOOLEAN :
       args = [machine |-> ValidatedArgs.machine, name |-> ValidatedArgs.name,
               has_after |-> has_after, after |-> Cutoff]
  /\ \E t \in ListingsOf(1, MaxListed) :
       /\ localdirs = [ph \in {"claude", "opencode"} |->
                         IF ph = AgentOf(cmd) THEN [exists |-> TRUE, files |-> t]
                         ELSE [exists |-> FALSE, files |-> <<>>]]
       /\ disk \in {{}, {LocalOf(AgentOf(cmd), t[i].key) : i \in DOMAIN t}}
  /\ disk0 = disk
  /\ walk = NoSelection
  /\ vcs = {}
  /\ entry = "none"
  /\ manifest = EmptyManifest
  /\ tasks = NoTasks /\ mf = Waiting
  /\ store = {} /\ written = {}
  /\ errors = <<>> /\ failures = {}
  /\ exit_code = NotExited
  /\ run = 1
  /\ retried = {}

\* restore_*_dir_from_s3 up to the gather of run_parallel_s3_ops: s3_list_objects
\* returns the objects or raises; the loop selects to_download and counts the skips
\* (kept in walk); nothing is downloaded from an empty selection or on a dry run
select_agent_objects(listed) ==
  /\ cmd \in {"restore_claude_dir_from_s3", "restore_opencode_dir_from_s3"}
  /\ pc = "list"
  /\ IF ~listed
     THEN /\ pc' = "raised"
          /\ UNCHANGED <<walk, tasks>>
     ELSE LET sel == select_objects(AgentOf(cmd), localdirs[AgentOf(cmd)].files, NoSelection)
          IN  /\ walk' = sel
              /\ IF sel.to_download = <<>> \/ dry_run
                 THEN pc' = "returned" /\ UNCHANGED tasks
                 ELSE /\ pc' = AgentOf(cmd)
                      /\ tasks' = [tasks EXCEPT ![AgentOf(cmd)] = UploadTasks(sel.to_download)]
  /\ UNCHANGED <<vcs, args, cmd, entry, dry_run, force, manifest, localdirs, mf, store, disk,
                 written, errors, failures, exit_code, run, disk0, retried>>

\* one attempt of s3_download_file(..., force=True) for to_download[i]
download_file(i, outcome) ==
  /\ cmd \in {"restore_claude_dir_from_s3", "restore_opencode_dir_from_s3"}
  /\ pc = AgentOf(cmd)
  /\ i \in DOMAIN tasks[pc]
  /\ tasks[pc][i].st = "running"
  /\ tasks' = [tasks EXCEPT ![pc][i] = S3Attempt(tasks[pc][i], outcome)]
  /\ disk' = IF outcome = "success"
             THEN disk \cup {LocalOf(pc, walk.to_download[i].key)} ELSE disk
  /\ written' = IF outcome = "success"
                THEN written \cup {LocalOf(pc, walk.to_download[i].key)} ELSE written
  /\ retried' = Retried(tasks[pc][i], outcome)
  /\ UNCHANGED <<vcs, args, cmd, entry, dry_run, force, manifest, localdirs, pc, mf, store,
                 errors, failures, exit_code, walk, run, disk0>>

\* run_parallel_s3_ops returns the counts; exceptions go to errors_list
agent_objects_downloaded ==
  /\ cmd \in {"restore_claude_dir_from_s3", "restore_opencode_dir_from_s3"}
  /\ pc = AgentOf(cmd)
  /\ UploadsGathered(pc)
  /\ errors' = errors \o count_results(tasks[pc], IF pc = "claude"
                                                  THEN "Claude dir download error"
                                                  ELSE "OpenCode dir download error")
  /\ pc' = "returned"
  /\ UNCHANGED <<vcs, args, cmd, entry, dry_run, force, manifest, localdirs, tasks, mf, store,
                 disk, written, failures, exit_code, walk, run, disk0, retried>>

AgentRestoreNext ==
  \/ \E listed \in BOOLEAN : select_agent_objects(listed)
  \/ \E ph \in {"claude", "opencode"}, i \in 1..MaxListed : S3Acquire(ph, i)
  \/ \E i \in 1..MaxListed, o \in S3Outcomes : download_file(i, o)
  \/ agent_objects_downloaded

SpecAgentRestore == AgentRestoreInit /\ [][AgentRestoreNext]_vars

----------------------------------------------------------------------------
(* Properties *)

Settled(t) == t.st \in {"true", "false", "exception", "skipped", "exists"}

AllSettled(ts) == \A i \in DOMAIN ts : Settled(ts[i])

Finished(t) == t.st \in {"true", "false", "exception"}

\* C1: in a backup that is not a dry run, the manifest upload starts only when every
\* loose-file upload and every upload of both agent directories has been created and
\* has finished (returned True, returned False or raised); no upload runs after it.
C1_ManifestUploadedLast ==
  (cmd = "backup" /\ mf.st # "waiting") =>
     /\ Len(tasks.files) = Len(manifest.files)
     /\ Len(tasks.claude) = Len(localdirs.claude.files)
     /\ Len(tasks.opencode) = Len(localdirs.opencode.files)
     /\ \A ph \in {"files", "claude", "opencode"} :
          \A i \in DOMAIN tasks[ph] : Finished(tasks[ph][i])

C1_Witness ==
  /\ cmd = "backup" /\ mf.st = "true" /\ ManifestKey \in store
  /\ Len(tasks.files) = MaxFiles
  /\ tasks.files[1].st = "exception" /\ tasks.files[2].st = "true"
  /\ Len(tasks.claude) > 0 /\ tasks.claude[1].st = "false"
  /\ Len(tasks.opencode) > 0 /\ tasks.opencode[1].st = "true"

\* C2: after a backup into an empty prefix, if manifest.json is in the object store then
\* every FileEntry has its object in the store, or the backup reported failure (error
\* list non-empty and exit code 1).
C2_ManifestImpliesObjects ==
  (cmd = "backup" /\ ManifestKey \in store) =>
     \A i \in DOMAIN manifest.files :
        \/ FilesKey(manifest.files[i]) \in store
        \/ (Len(errors) > 0 /\ exit_code = 1)

\* C3: a manifest upload that returns False or raises (after its 5 attempts or at once)
\* ends the backup with exit code 1 and never with a normal return, however many file
\* uploads succeeded.
C3_ManifestFailureFailsBackup ==
  (cmd = "backup" /\ mf.st \in {"false", "exception"}) =>
     /\ exit_code = 1
     /\ pc \in {"DevEnvError", "Exception"}

C3_Witness ==
  /\ cmd = "backup" /\ mf.st = "false"
  /\ Len(tasks.files) = MaxFiles
  /\ \A i \in DOMAIN tasks.files : tasks.files[i].st = "true"
  /\ errors = <<"Failed to upload manifest after retries">>
  /\ exit_code = 1

\* C4: a restore whose manifest.json could not be fetched exits with a nonzero code and
\* has started no clone, workspace, pin, download or symlink.
C4_NoManifestNoRestore ==
  (cmd = "restore" /\ "manifest_fetch" \in failures) =>
     /\ exit_code = 1
     /\ pc \in {"DevEnvError", "Exception"}
     /\ tasks = NoTasks
     /\ written = {}

C4_Witness ==
  /\ cmd = "restore" /\ "manifest_fetch" \in failures
  /\ ManifestKey \notin store /\ pc = "DevEnvError"
  /\ Len(manifest.files) > 0 /\ manifest.workspaces # <<>>

\* C5: a restore of a manifest with a path that fails validate_restore_paths starts no
\* clone, download or write, and exits with a nonzero code.
C5_UnsafeManifestRejected ==
  (cmd = "restore" /\ ~validate_restore_paths(manifest, manifest.root_dir)) =>
     /\ tasks = NoTasks
     /\ written = {}
     /\ Ended => exit_code # 0

\* C6: through every entry of the restore command, with or without --force, every clone,
\* workspace, file and symlink restore makes is at or below the manifest's root_dir.
C6_WritesUnderRoot ==
  cmd = "restore" => \A w \in written : is_path_under_root(w.path, manifest.root_dir)

\* C7: every FileEntry path, symlink path and symlink target of a generated manifest,
\* joined with root_dir, resolves to root_dir or below.
C7_ManifestPathsUnderRoot ==
  cmd = "discover" =>
    /\ \A i \in DOMAIN manifest.files :
         is_path_under_root(Join(manifest.root_dir, manifest.files[i]), manifest.root_dir)
    /\ \A j \in DOMAIN manifest.symlinks :
         /\ is_path_under_root(Join(manifest.root_dir, manifest.symlinks[j].relative_path),
                               manifest.root_dir)
         /\ is_path_under_root(Join(manifest.root_dir, manifest.symlinks[j].target),
                               manifest.root_dir)

\* C8: a restore that returns after any clone, workspace add, pin, download or symlink
\* failed has a non-empty error list and exit code 1.
C8_ExitZeroOnlyOnSuccess ==
  (cmd = "restore" /\ pc = "returned" /\ failures # {}) =>
     (Len(errors) > 0 /\ exit_code = 1)

\* C9: a default-workspace pin exists only when every clone has completed, and the
\* non-default workspaces of a repository are created or pinned only when the pin of
\* its default workspace has completed.
C9_RepositoryPhasesOrdered ==
  cmd = "restore" =>
    /\ tasks.pins # <<>> =>
         /\ DOMAIN tasks.pins = DOMAIN tasks.clones
         /\ AllSettled(tasks.clones)
    /\ \A i \in DOMAIN tasks.workspaces :
         /\ i \in DOMAIN tasks.pins /\ Settled(tasks.pins[i])
         /\ tasks.workspaces[i].st # "skipped" => tasks.pins[i].st # "skipped"
    /\ \A w \in written : w.kind = "workspace" => AllSettled(tasks.pins)

C9_Witness ==
  /\ cmd = "restore" /\ pc = "workspaces"
  /\ Len(tasks.clones) = MaxRepos
  /\ tasks.clones[1].st = "true" /\ tasks.clones[2].st = "false"
  /\ tasks.pins[1].st = "false" /\ tasks.pins[2].st = "skipped"
  /\ tasks.workspaces[1].st = "running" /\ tasks.workspaces[1].step = "add"

\* C10: a loose-file download exists only when every clone, pin and workspace task has
\* completed, and a symlink is created only when every download has completed.
C10_FilesThenSymlinksLast ==
  cmd = "restore" =>
    /\ (tasks.files # <<>> \/ \E w \in written : w.kind \in {"file", "symlink"}) =>
         /\ AllSettled(tasks.clones)
         /\ AllSettled(tasks.pins) /\ DOMAIN tasks.pins = DOMAIN tasks.clones
         /\ AllSettled(tasks.workspaces) /\ DOMAIN tasks.workspaces = DOMAIN tasks.clones
    /\ (\E w \in written : w.kind = "symlink") =>
         /\ Len(tasks.files) = Len(manifest.files)
         /\ AllSettled(tasks.files)

C10_Witness ==
  /\ cmd = "restore" /\ ~Ended
  /\ \E w \in written : w.kind = "symlink"
  /\ \E w \in written : w.kind = "workspace"
  /\ Len(tasks.clones) > 0 /\ tasks.clones[1].st = "true"
  /\ Len(tasks.files) > 0 /\ tasks.files[1].st = "true"

\* C11: without --force a loose file that was at its destination when restore began is
\* skipped, never opened for writing and still there; with --force a download that
\* returned True has written the file at its destination.
C11_ExistingFilesKept ==
  cmd = "restore" =>
    \A i \in DOMAIN manifest.files :
      /\ (~force /\ LocalFile(i) \in disk0) =>
           /\ LocalFile(i) \in disk
           /\ [kind |-> "file", path |-> LocalFile(i)] \notin written
           /\ i \in DOMAIN tasks.files => tasks.files[i].st = "skipped"
      /\ (force /\ i \in DOMAIN tasks.files /\ tasks.files[i].st = "true") =>
           /\ LocalFile(i) \in disk
           /\ [kind |-> "file", path |-> LocalFile(i)] \in written

C11_Witness ==
  /\ cmd = "restore" /\ ~force /\ pc = "returned" /\ entry = "s3"
  /\ Len(manifest.files) = MaxFiles
  /\ \A i \in DOMAIN manifest.files : LocalFile(i) \in disk0
  /\ Len(tasks.files) = MaxFiles
  /\ \A i \in DOMAIN tasks.files : tasks.files[i].st = "skipped"

S3Phases == {"files", "claude", "opencode"}

\* C13: no call of an object-store operation under S3_RETRY (upload file, upload bytes,
\* download file, list) starts more than 5 attempts, whatever errors the store returns.
C13_AtMostFiveAttempts ==
  /\ \A ph \in S3Phases : \A i \in DOMAIN tasks[ph] :
       tasks[ph][i].st = "running" => tasks[ph][i].n + 1 <= S3_MAX_ATTEMPTS
  /\ mf.st = "running" => mf.n + 1 <= S3_MAX_ATTEMPTS
  /\ mf.n <= S3_MAX_ATTEMPTS

C13_Witness ==
  /\ "transient" \in retried
  /\ \E ph \in S3Phases : \E i \in DOMAIN tasks[ph] :
       tasks[ph][i].st = "running" /\ tasks[ph][i].n = S3_MAX_ATTEMPTS - 1
  /\ \E ph \in S3Phases : \E i \in DOMAIN tasks[ph] : tasks[ph][i].st = "exception"

\* C14: S3_RETRY makes another attempt only after a transient error (a store error with
\* code 429, 500, 503, SlowDown or ServiceUnavailable, or a connection or timeout
\* error); after any other error, a permission or not-found error on the local file
\* included, the operation ends with its first attempt.
C14_OnlyTransientRetried == retried \subseteq {"transient"}

\* C15: at every moment of a restore at most MAX_CONCURRENT_CLONES clone operations are
\* in progress, however many repositories need cloning.
C15_ClonesBounded ==
  cmd = "restore" => Cardinality(Running(tasks.clones)) <= MAX_CONCURRENT_CLONES

C15_Witness ==
  /\ cmd = "restore" /\ pc = "clones"
  /\ Cardinality(Running(tasks.clones)) = MAX_CONCURRENT_CLONES
  /\ \E i \in DOMAIN tasks.clones : tasks.clones[i].st = "waiting"

S3InProgress ==
  Cardinality(Running(tasks.files)) + Cardinality(Running(tasks.claude))
    + Cardinality(Running(tasks.opencode))

\* C16: at every moment of an invocation at most MAX_CONCURRENT_S3_OPS uploads or
\* downloads are in progress, the loose-file phase and both agent-directory phases
\* counted together.
C16_S3OpsBounded == S3InProgress <= MAX_CONCURRENT_S3_OPS

C16_Witness ==
  /\ cmd = "backup" /\ pc = "files"
  /\ Cardinality(Running(tasks.files)) = MAX_CONCURRENT_S3_OPS
  /\ \E i \in DOMAIN tasks.files : tasks.files[i].st = "waiting"

\* C17: when the invocation's deadline expires the invocation ends as timed out with a
\* nonzero exit code, no task is left waiting or running, and no jj subprocess that
\* was running at that moment is left running.
C17_DeadlineKillsSubprocesses ==
  pc = "TimeoutError" =>
    /\ exit_code = 1
    /\ \A ph \in DOMAIN tasks : AllDone(tasks[ph])
    /\ mf.st # "running"
    /\ "subprocess_left_running" \notin failures


\* a name validate_safe_name has accepted: non-empty, every character in [A-Za-z0-9_-]
SafeName(name) == name # <<>> /\ \A i \in 1..Len(name) : name[i] \in SafeChars

\* C18: validate_safe_name accepts a machine or backup name exactly when it is non-empty
\* and all its characters are in [A-Za-z0-9_-], so an accepted name has no "/", ".",
\* whitespace or line terminator and the backup's key prefix is {machine}/{name}/ below
\* the base
C18_SafeNamesOnly ==
  /\ pc \in {"validated", "list_backups"} => SafeName(machine_of(args))
  /\ pc = "validated" =>
        /\ SafeName(args.name)
        /\ Segments(build_s3_paths(machine_of(args), args.name), <<>>)
             = <<machine_of(args), args.name, <<>> >>
  /\ pc = "ValueError" =>
        ~(SafeName(machine_of(args)) /\ (SafeName(args.name) \/ cmd = "list-backups"
                                         \/ (cmd = "restore" /\ args.name = <<>>)))

\* C19: no file of the manifest lies under a directory that should_skip_dir names, at
\* any depth below root_dir, and none lies inside a jj workspace.
C19_NoFileUnderSkippedDir ==
  cmd = "discover" =>
    \A i \in DOMAIN manifest.files :
      LET rel == manifest.files[i]
      IN  /\ \A k \in 1..(Len(rel) - 1) : ~should_skip_dir(rel[k])
          /\ \A j \in disk : ~IsPrefix(Parent(j), manifest.root_dir \o rel)

\* C20: no file of the manifest has a path whose first segment begins with ".", and no
\* symlink of the manifest has a link path below .dotfiles.
C20_NoDotFirstSegment ==
  cmd = "discover" =>
    /\ \A i \in DOMAIN manifest.files : ~startswith_dot(manifest.files[i][1])
    /\ \A j \in DOMAIN manifest.symlinks :
         ~(Len(manifest.symlinks[j].relative_path) > 1
           /\ manifest.symlinks[j].relative_path[1] = ".dotfiles")

\* C28: restore_workspace returns success only if its last current-state read observed
\* the recorded change; a first read that observes it returns success with no edit; a
\* failed edit returns failure with no second read; a second read that does not observe
\* it, or fails, returns failure.
C28_PinVerified ==
  cmd = "restore_workspace" /\ pc = "returned" =>
    /\ vcs.result = "true" => vcs.reads[Len(vcs.reads)] = ExpectedChange
    /\ vcs.reads[1] = ExpectedChange =>
         vcs.result = "true" /\ vcs.edit = "none" /\ Len(vcs.reads) = 1
    /\ vcs.edit = "failed" => vcs.result = "false" /\ Len(vcs.reads) = 1
    /\ Len(vcs.reads) = 2 /\ vcs.reads[2] # ExpectedChange => vcs.result = "false"

\* a pin whose edit succeeded and whose second read failed or saw another change
C28_Witness ==
  /\ cmd = "restore_workspace" /\ pc = "returned"
  /\ vcs.edit = "ok" /\ Len(vcs.reads) = 2 /\ vcs.reads[2] = "x" /\ vcs.result = "false"

\* C29: a divergent workspace, before or after the edit, does not change the pin: the
\* edit is applied whenever the first read is not on the recorded change, the pin
\* succeeds exactly when its last read is on it, and only a failed pin adds an error.
C29_DivergenceOnlyWarns ==
  cmd = "restore_workspace" /\ pc = "returned" =>
    /\ vcs.reads[1] # ExpectedChange => vcs.edit # "none"
    /\ vcs.result = "true" <=> vcs.reads[Len(vcs.reads)] = ExpectedChange
    /\ Len(errors) = IF vcs.result = "true" THEN 0 ELSE 1

\* a pin of a workspace that is divergent before and after the edit, and succeeds
C29_Witness ==
  /\ cmd = "restore_workspace" /\ pc = "returned"
  /\ vcs.divergent = <<TRUE, TRUE>> /\ vcs.edit = "ok" /\ vcs.result = "true"
  /\ errors = <<>>

Captured == {i \in DOMAIN vcs.results : vcs.results[i].st = "RepoData"}

\* C21: the repository names of a generated manifest are pairwise different and there
\* is one entry for every repository build_repo_data returned a RepoData for, also when
\* derived names collide with each other or with an already suffixed name.
C21_RepoNamesUnique ==
  cmd = "manifest" /\ pc = "returned" =>
    /\ \A i, j \in DOMAIN manifest.workspaces :
         manifest.workspaces[i].name = manifest.workspaces[j].name => i = j
    /\ Len(manifest.workspaces) = Cardinality(Captured)

\* three repositories named x, x and x-1 by their remotes: keys x, x-1 and x-1-1
C21_Witness ==
  /\ cmd = "manifest" /\ pc = "returned"
  /\ Len(manifest.workspaces) = 3
  /\ manifest.workspaces[1].name = <<"x">>
  /\ manifest.workspaces[2].name = <<"x", "-", "1">>
  /\ manifest.workspaces[3].name = <<"x", "-", "1", "-", "1">>

\* C22: every RepoData of a generated manifest has a "default" workspace.
C22_DefaultAlwaysCaptured ==
  cmd = "manifest" /\ pc = "returned" =>
    \A i \in DOMAIN manifest.workspaces : "default" \in manifest.workspaces[i].data.workspaces

\* C23: a generated manifest has no files field exactly when its version is 1.
C23_FilesAbsentIffVersion1 ==
  cmd = "manifest" /\ pc = "returned" => (~manifest.has_files <=> manifest.version = 1)

\* an URL that begins with https://, http://, ssh://, git:// or git@
SupportedScheme(url) ==
  /\ Len(url) >= 2
  /\ \/ url[2] = "://" /\ url[1] \in {"https", "http", "ssh", "git"}
     \/ url[2] = "@" /\ url[1] = "git"

\* C24: validate_url_scheme accepts exactly the URLs that begin with a supported
\* scheme; every remote a generated manifest records has one and every captured
\* repository has a remote; a restore clones from and adds as remotes only such URLs.
C24_OnlySupportedSchemes ==
  /\ ~validate_url_scheme(<<"file", "://", "/", "etc", "/", "passwd">>)
  /\ validate_url_scheme(<<"git", "@", "github.com", ":", "u", "/", "r">>)
  /\ cmd = "manifest" /\ pc = "returned" =>
       \A i \in DOMAIN manifest.workspaces :
         LET remotes == manifest.workspaces[i].data.remotes
         IN  remotes # <<>> /\ \A k \in DOMAIN remotes : SupportedScheme(remotes[k].url)
  /\ cmd = "restore" => \A c \in vcs : SupportedScheme(c.url)

\* a restore that cloned from the upstream remote of a repository whose origin is a
\* file:// URL, added that remote, and left out a repository that has no other remote
C24_Witness ==
  /\ cmd = "restore" /\ pc = "returned"
  /\ Len(manifest.workspaces) = 2
  /\ manifest.workspaces[1].remotes # <<>>
  /\ manifest.workspaces[1].remotes[1].url[1] = "file"
  /\ [jj |-> "git clone", url |-> <<"http", "://", "h", "/", "y">>] \in vcs
  /\ \E c \in vcs : c.jj = "git remote add"
  /\ tasks.clones[2].st = "skipped"

Count(calls, c) == Cardinality({i \in DOMAIN calls : calls[i] = c})

\* C27: a read whose first attempt fails with a "stale" message, in any letter case,
\* issues update-stale once; if the update succeeds it repeats the read once, and a
\* repeated read that succeeds returns the state after the update.
C27_StaleUpdatedOnce ==
  cmd = "manifest" /\ pc = "read_done" =>
    /\ Count(vcs.calls, "update-stale") <= 1
    /\ IsStale(vcs.answers.first) =>
         /\ Count(vcs.calls, "update-stale") = 1
         /\ vcs.answers.update = "ok" => Count(vcs.calls, CommandOf(vcs.op)) = 2
         /\ vcs.answers.update = "ok" /\ vcs.answers.retry = "ok" => vcs.value = "c"
    /\ ~IsStale(vcs.answers.first) => Count(vcs.calls, CommandOf(vcs.op)) = 1

\* the relative path equals a whitelisted path, or begins with one followed by "/"
Whitelisted(p) ==
  \E w \in CLAUDE_SYNC_PATHS :
     \/ p = w
     \/ Len(p) > Len(w) /\ SubSeq(p, 1, Len(w)) = w /\ p[Len(w) + 1] = "/"

ClaudeFiles == {localdirs.claude.files[i] : i \in DOMAIN localdirs.claude.files}

\* C25: backing up the Claude directory selects for upload exactly the files whose
\* relative path equals a whitelisted path or begins with one followed by "/"; only
\* such files reach the store, all of them when every upload succeeds; a path that
\* merely shares a prefix ("projects-old/x", "plugins/other.json") and the credential
\* file are never uploaded
C25_WhitelistOnly ==
  cmd = "sync_claude_dir_to_s3" =>
    /\ pc = "claude" =>
         {walk[i] : i \in DOMAIN walk} = {p \in ClaudeFiles : Whitelisted(p)}
    /\ store \subseteq {ClaudeKey(p) : p \in {q \in ClaudeFiles : Whitelisted(q)}}
    /\ (pc = "returned" /\ localdirs.claude.exists /\ ~dry_run
        /\ \A i \in DOMAIN tasks.claude : tasks.claude[i].st = "true")
         => store = {ClaudeKey(p) : p \in {q \in ClaudeFiles : Whitelisted(q)}}
    /\ ClaudeKey(<<"projects", "-old", "/", "x">>) \notin store
    /\ ClaudeKey(<<"plugins", "/", "other.json">>) \notin store
    /\ ClaudeKey(<<".credentials.json">>) \notin store

C25_Witness ==
  /\ cmd = "sync_claude_dir_to_s3" /\ pc = "returned"
  /\ ClaudeFiles = {<<"projects", "/", "a", "/", "s.jsonl">>, <<"projects", "-old", "/", "x">>}
  /\ store = {ClaudeKey(<<"projects", "/", "a", "/", "s.jsonl">>)}

Listed == {localdirs[AgentOf(cmd)].files[i] : i \in DOMAIN localdirs[AgentOf(cmd)].files}

\* C26: restoring an agent directory into an empty destination with a sessions-after
\* cutoff selects for download exactly the listed objects whose last_modified is at or
\* after the cutoff, and counts as skipped by date exactly the listed objects whose
\* last_modified is before it
C26_DateFilterOnly ==
  (/\ cmd \in {"restore_claude_dir_from_s3", "restore_opencode_dir_from_s3"}
   /\ pc \in {"claude", "opencode", "returned"}
   /\ args.has_after /\ disk0 = {})
  => /\ {walk.to_download[i] : i \in DOMAIN walk.to_download}
          = {o \in Listed : o.last_modified >= args.after}
     /\ walk.skipped_by_date = Cardinality({o \in Listed : o.last_modified < args.after})

FailedClones == {i \in DOMAIN tasks.clones : tasks.clones[i].st \in {"false", "exception"}}

OnDiskOrCloned == {i \in DOMAIN tasks.clones : tasks.clones[i].st \in {"exists", "true"}}

\* C30: a clone that fails (non-zero exit, timeout, cleanup failure or exception) adds
\* exactly one entry to the error list and halts nothing else: every clone is carried
\* to its end, every repository cloned or found on disk gets its default pin and its
\* non-default workspaces, no exit other than the overall deadline happens before the
\* repositories' work is done, and a run that returns has restored files, symlinks
\* and both agent directories
C30_CloneFailureIsolated ==
  cmd = "restore" =>
    /\ tasks.pins # <<>> =>
         /\ Count(errors, "Error cloning") = Cardinality(FailedClones)
         /\ \A i \in DOMAIN tasks.clones :
              tasks.clones[i].st \in {"exists", "true", "false", "exception", "skipped"}
         /\ \A i \in OnDiskOrCloned : tasks.pins[i].st # "skipped"
    /\ tasks.workspaces # <<>> =>
         \A i \in OnDiskOrCloned : tasks.workspaces[i].st # "skipped"
    /\ (FailedClones # {} /\ Ended /\ pc # "TimeoutError") =>
         /\ tasks.workspaces # <<>>
         /\ AllDone(tasks.workspaces)
    /\ (FailedClones # {} /\ pc = "returned" /\ entry = "s3") =>
         /\ Len(tasks.files) = Len(manifest.files)
         /\ AllDone(tasks.files)
         /\ AllDone(tasks.claude) /\ AllDone(tasks.opencode)

C30_Witness ==
  /\ cmd = "restore" /\ pc = "returned" /\ entry = "s3"
  /\ Len(manifest.workspaces) = 2
  /\ tasks.clones[1].st = "true" /\ tasks.clones[2].st = "false"
  /\ tasks.pins[1].st = "true"
  /\ tasks.workspaces[1].st = "true"
  /\ \A w \in AllWorkspaces(manifest) :
       Abs(w.path) \in disk <=> w \in {manifest.workspaces[1].workspaces[k] :
                                         k \in DOMAIN manifest.workspaces[1].workspaces}
  /\ LocalFile(1) \in disk
  /\ \E w \in written : w.kind = "symlink"
  /\ errors = <<"Error cloning">>

WsPath(i, k) == Abs(manifest.workspaces[i].workspaces[k].path)

\* the record a "jj workspace add" for workspace k of repository i leaves
WsAdded(i, k) == [kind |-> "workspace", path |-> WsPath(i, k)]

\* C32: create_repo_workspaces works on one non-default workspace of its repository
\* at a time, in the manifest's order: while workspace k is in progress every earlier
\* one is settled (on disk, or its failed "workspace add" recorded) and no later one
\* has been touched; a failed "workspace add" is recorded once and the loop goes on,
\* so that a task that returns has gone through every workspace of its repository
C32_WorkspacesSerialPerRepo ==
  (cmd = "restore" /\ tasks.workspaces # <<>>) =>
    \A i \in DOMAIN tasks.workspaces :
       LET t == tasks.workspaces[i]
           n == Len(manifest.workspaces[i].workspaces)
       IN  t.st \in {"running", "true"} =>
             /\ \A k \in 2..n :
                  /\ k > t.k => WsAdded(i, k) \notin written
                  /\ (k = t.k /\ t.step = "add") => WsAdded(i, k) \notin written
             /\ Cardinality({k \in 2..(t.k - 1) : WsPath(i, k) \notin disk})
                  = Count(t.errs, "Error creating workspace")
             /\ t.st = "true" => t.k = n + 1

\* both repositories' tasks are in progress at once, the first on its second
\* workspace after the add of its first one failed
C32_Witness ==
  /\ cmd = "restore" /\ pc = "workspaces"
  /\ manifest = WorkspacesManifest
  /\ tasks.workspaces[1].st = "running" /\ tasks.workspaces[1].k = 3
  /\ tasks.workspaces[1].errs = <<"Error creating workspace">>
  /\ tasks.workspaces[2].st = "running" /\ tasks.workspaces[2].step = "pin"

\* C33: no outcome of the unlink or link step of restore_symlinks aborts the restore:
\* the step that ends the files-and-symlinks phase goes on to the agent directories,
\* with a failure counted for the entry, unless the overall deadline ends the run
C33_SymlinkFailureNeverAborts ==
  [][(cmd = "restore" /\ pc = "files" /\ pc' \notin {"files", "TimeoutError"})
       => pc' = "claude_list"]_vars

\* C34: restoring an agent directory downloads an object only if its relative path
\* satisfies that directory's sync rule (the path whitelist for the Claude directory,
\* the first-segment whitelist for the OpenCode directory), so that .credentials.json
\* found in the store is never written locally
C34_RestoreAppliesSyncRule ==
  cmd \in {"restore_claude_dir_from_s3", "restore_opencode_dir_from_s3"} =>
    /\ \A i \in DOMAIN walk.to_download :
         IF cmd = "restore_claude_dir_from_s3"
         THEN Whitelisted(walk.to_download[i].key)
         ELSE _should_sync_opencode_path(walk.to_download[i].key)
    /\ LocalOf(AgentOf(cmd), <<".credentials.json">>) \notin written

\* C35: a manifest generate_manifest produced for root_dir passes
\* validate_restore_paths for the same root_dir
C35_GeneratedManifestRestorable ==
  (cmd = "discover" /\ pc = "returned") =>
     validate_restore_paths(manifest, manifest.root_dir)

\* C36: a loose-file download that failed (its attempts exhausted, or refused) or was
\* cancelled by the overall deadline leaves no file at its destination that was not
\* there before the run, so that a later run without --force downloads it again
C36_FailedDownloadLeavesNoFile ==
  cmd = "restore" =>
    \A i \in DOMAIN tasks.files :
       tasks.files[i].st \in {"false", "exception", "cancelled"}
         => LocalFile(i) \notin (disk \ disk0)

\* C37: list-backups reports a backup name only if manifest.json exists under the
\* backup's prefix: a backup whose file uploads ran while its manifest upload failed or
\* has not happened yet is not listed
C37_ListedOnlyWithManifest ==
  cmd = "backup" => ("backup" \in list_backups(store) => ManifestKey \in store)

\* the machine names validate_safe_name accepts, among those of the model
AcceptedMachines ==
  {m \in NamesOf(MaxNameLen) \cup {ClaudeCodeDir, OpenCodeDir} : validate_safe_name(m)}

\* no key lies under both prefixes
DisjointPrefixes(p, q) == ~IsPrefix(p, q) /\ ~IsPrefix(q, p)

\* C38: under one base the prefix of an accepted backup, {machine}/{name}/, is disjoint
\* from the agent prefixes claude-code/{machine'}/ and opencode/{machine'}/ of every
\* accepted machine, also when the backup's machine is called claude-code or opencode
C38_BackupAndAgentPrefixesDisjoint ==
  (cmd = "backup" /\ pc = "validated") =>
     \A m \in AcceptedMachines :
        /\ DisjointPrefixes(build_s3_paths(machine_of(args), args.name), claude_path(m))
        /\ DisjointPrefixes(build_s3_paths(machine_of(args), args.name), opencode_path(m))

\* the same for a machine that is not called as an agent directory
C38_DisjointForOtherMachines ==
  (cmd = "backup" /\ pc = "validated" /\ machine_of(args) \notin {ClaudeCodeDir, OpenCodeDir}) =>
     \A m \in AcceptedMachines :
        /\ DisjointPrefixes(build_s3_paths(machine_of(args), args.name), claude_path(m))
        /\ DisjointPrefixes(build_s3_paths(machine_of(args), args.name), opencode_path(m))

\* the remote URLs of repository i, as the manifest records them
RemoteUrls(i) ==
  {manifest.workspaces[i].remotes[k].url : k \in DOMAIN manifest.workspaces[i].remotes}

\* C39: for a repository whose clone failed, nothing more is attempted in the same
\* invocation: it gets no default pin, no "git remote add" beyond the clone itself,
\* no "jj workspace add", and none of its non-default workspace directories is created
C39_NothingAfterFailedClone ==
  cmd = "restore" =>
    \A i \in FailedClones :
       /\ tasks.pins # <<>> => tasks.pins[i].st = "skipped"
       /\ tasks.workspaces # <<>> => tasks.workspaces[i].st = "skipped"
       /\ \A u \in RemoteUrls(i) : [jj |-> "git remote add", url |-> u] \notin vcs
       /\ \A k \in 2..Len(manifest.workspaces[i].workspaces) :
            /\ WsAdded(i, k) \notin written
            /\ WsPath(i, k) \in disk => WsPath(i, k) \in disk0

\* the clone of the repository with a non-default workspace failed while the other
\* one was cloned, pinned and gone through; the run returned
C39_Witness ==
  /\ cmd = "restore" /\ pc = "returned"
  /\ Len(manifest.workspaces) = 2 /\ Len(tasks.clones) = 2
  /\ tasks.clones[1].st = "false" /\ tasks.clones[2].st = "true"
  /\ Len(tasks.pins) = 2 /\ tasks.pins[1].st = "skipped" /\ tasks.pins[2].st = "true"
  /\ Len(tasks.workspaces) = 2
  /\ tasks.workspaces[1].st = "skipped" /\ tasks.workspaces[2].st = "true"
  /\ Len(manifest.workspaces[1].workspaces) = 2
  /\ WsPath(1, 2) \notin disk

\* C40: the cleanup of a failed clone removes only what that clone attempt created:
\* the checkout of a repository whose own clone succeeded stays on disk whatever the
\* other clones of the invocation do, also when one repository's default path is
\* inside another's or equal to it
C40_CleanupSparesOtherCheckouts ==
  cmd = "restore" =>
    \A i \in DOMAIN tasks.clones :
       tasks.clones[i].st = "true" => Abs(DefaultPath(i)) \in disk

========================================================================
